---------------------------- MODULE Spec2Model ----------------------------
(***************************************************************************)
(* A model of the on-device control plane of the esp32-mainboard firmware: *)
(* the request/response mailbox (src/src/channel.rs), the power controller *)
(* task (src/src/tasks/power.rs, src/src/power/controller.rs), the digital *)
(* pin agents (src/src/tasks/digital_io.rs), the external-interrupt task   *)
(* (src/src/tasks/interrupt.rs), the WebSocket session command dispatch    *)
(* (src/src/bin/www_test/server.rs), the shutdown sequence                 *)
(* (src/src/bin/www_test/main.rs) and the ADC sampler                      *)
(* (src/src/tasks/adc.rs).                                                 *)
(*                                                                         *)
(* Tasks run on a single-threaded cooperative executor: a task runs until  *)
(* it reaches an await that is pending.  An action of the model is one     *)
(* such run, or a piece of one; while a run is split over several actions  *)
(* the variable `running` names the task that holds the processor and no   *)
(* other task may step.                                                    *)
(***************************************************************************)
EXTENDS Integers, Sequences, FiniteSets, TLC

(***************************************************************************)
(* Bounds of the model.                                                    *)
(***************************************************************************)
\* number of tasks calling transact on the generic mailbox
NumCallers == 3
\* number of transacts each generic caller issues
MaxTransacts == 2
\* capacity N of the generic mailbox's two FIFOs
MbCap == 2

VARIABLES
    \* ---- generic RequestResponseChannel with its callers and worker ----
    req_channel,     \* FIFO of requests (channel.rs:6)
    resp_channel,    \* FIFO of responses (channel.rs:7)
    callerPc,        \* per caller: "idle" | "send" | "recv" (position in transact)
    callerReq,       \* per caller: the request of its current/last transact
    callerN,         \* per caller: number of transacts started
    callerOverlap,   \* per caller: another transact was outstanding during this one
    workerPc,        \* "recv" | "send" (position in the worker loop)
    workerReq,       \* the request the worker is handling
    recvCount,       \* per request: times recv_request returned it to the worker
    sendCount,       \* per request: times the worker sent a response for it
    returnCount,     \* per request: times its response was returned by a transact
    returned         \* per caller: its last returned transact [req, resp, overlap]

mbVars == <<req_channel, resp_channel, callerPc, callerReq, callerN,
            callerOverlap, workerPc, workerReq, recvCount, sendCount,
            returnCount, returned>>

VARIABLES
    \* ---- the executor ----
    running,          \* the task that holds the processor in mid-run, or "none"
    \* ---- power controller task (tasks/power.rs, power/controller.rs) ----
    ppc,              \* position of power_controller_task
    wdt,              \* config.i2c_watchdog_timer
    mode,             \* PowerController::mode
    boost,            \* level of the boost_converter_enable GPIO
    expander,         \* byte last written to the PCF8574 by expander.set
    pocr,             \* charging/OTG bits of the charger's power-on-configuration register
    vbus,             \* environment: VBUS is present
    initial_mode_set, \* local of power_controller_task
    POWER_STATE,      \* the power-state watch: last PowerControllerStats sent, or NoStats
    POWER_CONTROL,    \* the power mailbox: [req |-> FIFO, resp |-> FIFO]
    pcmd,             \* the request power_controller_task is handling
    presp,            \* the response it computed for pcmd
    \* ---- tasks that call PowerHandle ----
    irqPc,            \* ext_interrupt_task: "wait_edge" | "recv"
    clientPc,         \* per client task: "idle" | "recv"
    clientReq,        \* per client task: the request of its current/last transact
    \* ---- time (unit: TimeUnit seconds) ----
    waited,           \* time the power task has spent in its current wait
    sinceReset,       \* time since the last successful watchdog-reset write
    faultSinceReset,  \* "write" | "read" | "none": an I2C write, or only reads, of the
                      \* power task failed since then
    \* ---- history ----
    resetAfter,       \* how the wait ended that the reset write just issued followed
    resetOwed,        \* the wait of this iteration is over and no reset write was issued yet
    ackedMode,        \* m: Ok was sent for SetMode(m) and nothing was published since
    returnedMode,     \* m: a caller got Ok back for its SetMode(m) and nothing was published since
    published,        \* POWER_STATE was written in this iteration of the power task
    pubAfterAck,      \* the value ackedMode had at that write, until the next request is handled
    \* ---- digital pin agents (tasks/digital_io.rs), per pin ----
    pinPc,            \* "new" | "publish" | "select" | "respond"
    pinTurn,          \* the pin whose agent is running while running = "pin"
    current_mode,     \* local of digital_pin_task: "OpenDrain" | "PushPull"
    pinLevel,         \* the level set on the pin (is_set_high)
    DIGITAL_STATE,    \* the pin's watch: last (mode, state) sent, or NoPinState
    DIGITAL_CHANNEL,  \* the pin's mailbox: [req |-> FIFO, resp |-> FIFO]
    \* ---- main (bin/www_test/main.rs) and WebSocket sessions ----
    mainPc,           \* "loop" | "boost" | "pin_mode" | "pin_set" | "charging" | "sleep"
    mainPin,          \* the pin the shutdown sequence is at
    clientPin,        \* per client task: the pin of its current pin transact
    sessionCmds,      \* the number of commands the sessions will still receive
    \* ---- ADC sampler and its buffer pub/sub channel (tasks/adc.rs) ----
    sequence,         \* local of adc_task: u32, as 16-bit halves [hi, lo]
    ADC_BUFFER_DATA,  \* the channel's queue of [sequence, remaining readers]
    behind,           \* per subscriber: published messages it has not passed
    buffers,          \* the number of buffers published
    subLast,          \* per subscriber: sequence of the last message received
    subPrev,          \* per subscriber: sequence of the one before
    missed,           \* per subscriber: messages it lost between those two
    ADC_STATE,        \* the ADC scalar watch: last AdcState sent, or NoSample
    lastPublished,    \* the buffer last handed to publish_immediate, or NoBuffer
    edgesPending,     \* falling edges on the IRQ line that no CheckInterrupt was sent for
    uartPc,           \* uart_receive_task: "read" | "publish" (suspended in publish)
    UART_RX_DATA,     \* the UART RX pub/sub queue: [bytes, remaining] per batch
    uartBehind,       \* per subscriber: queued batches it has not read
    uartHeld,         \* the length of the batch the suspended publish holds, or 0
    \* ---- one WebSocket session (bin/www_test/server.rs) ----
    wsPc,             \* "acquire" | "loop" | "closed" | "failed" (run returned Err)
    wsHandles,        \* per handle run has asked for, in order: it was obtained
    wsClose,          \* once closed: <<code>> of the close frame sent, <<>> without code
    wsMsg,            \* <<message, io>> when the last event was a message, else <<>>
    wsEvents,         \* the number of events the session may still take
    wsDispatched,     \* the requests the session sent to the tasks, in order
    wsSent,           \* the frames the session sent to the client, in order
    i2cAcks,          \* environment: the bus addresses that acknowledge a write
    i2cProbed,        \* the addresses the last i2c_scan wrote to, in order
    \* ---- one sample of adc_task (tasks/adc.rs:199-219) ----
    calibration,      \* the channel's calibration constant
    raw,              \* what adc.read_oneshot last returned
    millivolts,       \* the sample stored in the buffer for it
    \* ---- the watches at one session's select (server.rs:342-362) ----
    current_id,       \* per watch: the number of values sent to it
    at_id,            \* per watch: the id of the value the session's receiver got last
    rxReady,          \* the socket holds a message for rx.next_message
    \* ---- UART transmission (tasks/uart.rs:25-31, 65-81) ----
    UART_TX_CHANNEL,  \* the queue of byte vectors; a vector is named by its number
    txSendPc,         \* the caller of uart_send: "idle" | "send" (suspended in it)
    txEnqueued,       \* the number of vectors queued so far
    txPc,             \* uart_transmit_task: "receive" | "write" | "stopped"
    txData,           \* the vector uart_transmit_task holds, or 0
    txLog,            \* the calls of write_async so far: <<vector, it returned Ok>>
    \* ---- enter_shipping_mode (power/controller.rs:452-463) ----
    watchdog_timer,   \* the charger's CTTCR watchdog-timer field
    batfet_disabled,  \* the charger's MOCR BATFET-disable bit
    shipResult,       \* what the last enter_shipping_mode returned, or "none"
    shipWrites,       \* the registers that call wrote, in order
    shipCalls,        \* the number of calls so far
    \* ---- the shared I2C bus (board.rs:78-99) ----
    busBusy,          \* the AtomicCell's busy flag: the task in a transaction, or "none"
    busLog,           \* the transactions started: <<task, transaction, request or operation number>>
    busPc,            \* the power task's next transaction in the request it handles, 0: none
    busReq,           \* the kind of that request
    busRequests,      \* the number of requests the power task has taken
    wsBusOp,          \* the I2C operation the session executes, or "none"
    wsBusLeft,        \* the transactions that operation still has to make
    wsBusOps,         \* the number of I2C operations the session has started
    \* ---- the handles of the WebSocket sessions (server.rs:296-340, 562-566) ----
    receivers,        \* per watch or pub/sub channel: its receiver or subscriber count
    sesPc,            \* per session: "idle" | "failing" | "loop" | "closing"
    held,             \* per session: the number of handles it holds, in the order of run
    sesRuns,          \* the number of sessions started so far
    sesFailures       \* the number of them that ended with close code 1011

pwVars == <<ppc, wdt, mode, boost, expander, pocr, vbus, initial_mode_set,
            POWER_STATE, POWER_CONTROL, pcmd, presp>>
callVars == <<irqPc, clientPc, clientReq>>
timeVars == <<waited, sinceReset, faultSinceReset>>
pinVars == <<pinPc, pinTurn, current_mode, pinLevel, DIGITAL_STATE,
             DIGITAL_CHANNEL>>
mainVars == <<mainPc, mainPin, clientPin, sessionCmds>>
histVars == <<resetAfter, resetOwed, ackedMode, returnedMode, published, pubAfterAck>>

\* what the power controller task and the external interrupt task leave alone
adcVars == <<sequence, ADC_BUFFER_DATA, behind, buffers, subLast, subPrev, missed,
             ADC_STATE, lastPublished>>
\* what only the steps of the later sections change
irqAux == <<edgesPending>>
uartVars == <<uartPc, UART_RX_DATA, uartBehind, uartHeld>>
wsVars == <<wsPc, wsHandles, wsClose, wsMsg, wsEvents, wsDispatched, wsSent,
           i2cAcks, i2cProbed>>
mvVars == <<calibration, raw, millivolts>>
\* the variables of the last sections
watchVars == <<current_id, at_id, rxReady>>
txVars == <<UART_TX_CHANNEL, txSendPc, txEnqueued, txPc, txData, txLog>>
shipVars == <<watchdog_timer, batfet_disabled, shipResult, shipWrites, shipCalls>>
busVars == <<busBusy, busLog, busPc, busReq, busRequests, wsBusOp, wsBusLeft, wsBusOps>>
handleVars == <<receivers, sesPc, held, sesRuns, sesFailures>>
lateVars == <<mvVars, watchVars, txVars, shipVars, busVars, handleVars>>
auxVars == <<irqAux, uartVars, wsVars, lateVars>>
otherVars == <<mbVars, pinVars, mainVars, adcVars, auxVars>>
\* what the pin agents, the sessions' commands and main leave alone
idleVars == <<mbVars, adcVars, auxVars>>

\* what the steps of the later sections leave alone
baseVars == <<running, pwVars, callVars, timeVars, histVars, mbVars, pinVars,
              mainVars, adcVars>>

\* what the steps of one later section leave alone of the other sections
exceptIrq == <<baseVars, uartVars, wsVars, lateVars>>
exceptUart == <<baseVars, irqAux, wsVars, lateVars>>
exceptWs == <<baseVars, irqAux, uartVars, lateVars>>
exceptMv == <<baseVars, irqAux, uartVars, wsVars, watchVars, txVars, shipVars, busVars, handleVars>>
exceptWatch == <<baseVars, irqAux, uartVars, wsVars, mvVars, txVars, shipVars, busVars, handleVars>>
exceptTx == <<baseVars, irqAux, uartVars, wsVars, mvVars, watchVars, shipVars, busVars, handleVars>>
exceptBus == <<pwVars, callVars, timeVars, histVars, mbVars, pinVars, mainVars,
               adcVars, irqAux, uartVars, wsVars, mvVars, watchVars, txVars,
               shipVars, handleVars>>
exceptHandles == <<baseVars, irqAux, uartVars, wsVars, mvVars, watchVars, txVars,
                   shipVars, busVars>>

vars == <<otherVars, running, pwVars, callVars, timeVars, histVars>>

(***************************************************************************)
(* embassy_sync Channel as used by RequestResponseChannel: a bounded FIFO. *)
(* send suspends while the FIFO is full, receive while it is empty; any    *)
(* task blocked in receive may be the one that takes the head.             *)
(***************************************************************************)
ChanCanSend(q, cap) == Len(q) < cap
\* a send that puts the item at the head of the FIFO
ChanSendFront(q, x) == <<x>> \o q
ChanSend(q, x) == Append(q, x)
ChanCanReceive(q) == Len(q) > 0
ChanFront(q) == Head(q)
\* a receive that leaves the item in the FIFO
ChanReceiveKeep(q) == q
ChanReceive(q) == Tail(q)

(***************************************************************************)
(* The generic mailbox: NumCallers tasks call transact, one worker loops   *)
(* recv_request then send_response.  Requests are made distinct (caller,   *)
(* index) and the worker's response records the request it was computed    *)
(* for, so that the logs can tell whose response a caller was handed.      *)
(***************************************************************************)
Callers == 1..NumCallers
NoReq == [from |-> 0, n |-> 0]
Requests == [from : Callers, n : 1..MaxTransacts + 1]
ResponseFor(r) == [for |-> r]
NoReturn == [req |-> NoReq, resp |-> ResponseFor(NoReq), overlap |-> FALSE]

Outstanding(c) == callerPc[c] \in {"send", "recv"}

InitMailbox ==
    /\ req_channel = <<>>
    /\ resp_channel = <<>>
    /\ callerPc = [c \in Callers |-> "idle"]
    /\ callerReq = [c \in Callers |-> NoReq]
    /\ callerN = [c \in Callers |-> 0]
    /\ callerOverlap = [c \in Callers |-> FALSE]
    /\ workerPc = "recv"
    /\ workerReq = NoReq
    /\ recvCount = [r \in Requests |-> 0]
    /\ sendCount = [r \in Requests |-> 0]
    /\ returnCount = [r \in Requests |-> 0]
    /\ returned = [c \in Callers |-> NoReturn]

\* a task calls transact(r): channel.rs:34
transact_call(c) ==
    /\ callerPc[c] = "idle"
    /\ callerN[c] < MaxTransacts
    /\ callerN' = [callerN EXCEPT ![c] = @ + 1]
    /\ callerReq' = [callerReq EXCEPT ![c] = [from |-> c, n |-> callerN[c] + 1]]
    /\ callerPc' = [callerPc EXCEPT ![c] = "send"]
    /\ callerOverlap' =
           [d \in Callers |->
               IF d = c THEN \E e \in Callers \ {c} : Outstanding(e)
               ELSE callerOverlap[d] \/ Outstanding(d)]
    /\ UNCHANGED <<req_channel, resp_channel, workerPc, workerReq, recvCount,
                   sendCount, returnCount, returned>>

\* send_request completes once the request FIFO has room: channel.rs:18-20, 35
send_request(c) ==
    /\ callerPc[c] = "send"
    /\ ChanCanSend(req_channel, MbCap)
    /\ req_channel' = ChanSend(req_channel, callerReq[c])
    /\ callerPc' = [callerPc EXCEPT ![c] = "recv"]
    /\ UNCHANGED <<resp_channel, callerReq, callerN, callerOverlap, workerPc,
                   workerReq, recvCount, sendCount, returnCount, returned>>

\* recv_response takes the head of the response FIFO and transact returns it:
\* channel.rs:30-32, 36
recv_response(c) ==
    /\ callerPc[c] = "recv"
    /\ ChanCanReceive(resp_channel)
    /\ returned' = [returned EXCEPT ![c] =
                       [req |-> callerReq[c], resp |-> ChanFront(resp_channel),
                        overlap |-> callerOverlap[c]]]
    /\ returnCount' = [returnCount EXCEPT ![ChanFront(resp_channel).for] = @ + 1]
    /\ resp_channel' = ChanReceive(resp_channel)
    /\ callerPc' = [callerPc EXCEPT ![c] = "idle"]
    /\ UNCHANGED <<req_channel, callerReq, callerN, callerOverlap, workerPc,
                   workerReq, recvCount, sendCount>>

\* the worker's recv_request: channel.rs:22-24
recv_request ==
    /\ workerPc = "recv"
    /\ ChanCanReceive(req_channel)
    /\ workerReq' = ChanFront(req_channel)
    /\ recvCount' = [recvCount EXCEPT ![ChanFront(req_channel)] = @ + 1]
    /\ req_channel' = ChanReceive(req_channel)
    /\ workerPc' = "send"
    /\ UNCHANGED <<resp_channel, callerPc, callerReq, callerN, callerOverlap,
                   sendCount, returnCount, returned>>

\* the worker's send_response: channel.rs:26-28
send_response ==
    /\ workerPc = "send"
    /\ ChanCanSend(resp_channel, MbCap)
    /\ resp_channel' = ChanSend(resp_channel, ResponseFor(workerReq))
    /\ sendCount' = [sendCount EXCEPT ![workerReq] = @ + 1]
    /\ workerPc' = "recv"
    /\ UNCHANGED <<req_channel, callerPc, callerReq, callerN, callerOverlap,
                   workerReq, recvCount, returnCount, returned>>

NextMailbox ==
    \/ \E c \in Callers : transact_call(c)
    \/ \E c \in Callers : send_request(c)
    \/ \E c \in Callers : recv_response(c)
    \/ recv_request
    \/ send_response

HasReturned(c) == returned[c] # NoReturn

\* C1 (as stated): every transact that returned was handed the response the
\* worker produced for that transact's own request.
C1_OwnResponse ==
    \A c \in Callers :
        HasReturned(c) => returned[c].resp = ResponseFor(returned[c].req)

\* C1 (amended): every response a transact returned was passed to
\* send_response exactly once, for a request that recv_request returned exactly
\* once, and was returned to no other transact; and a transact during which no
\* other transact was outstanding returned the response produced for its own
\* request.
C1_Matched ==
    \A c \in Callers :
        HasReturned(c) =>
            /\ sendCount[returned[c].resp.for] = 1
            /\ recvCount[returned[c].resp.for] = 1
            /\ returnCount[returned[c].resp.for] = 1
            /\ ~returned[c].overlap => returned[c].resp = ResponseFor(returned[c].req)

\* C1 witness: a transact that overlapped another one has returned another
\* caller's response, and a transact that overlapped none has returned.
C1_Witness ==
    /\ \E c \in Callers :
           /\ HasReturned(c)
           /\ returned[c].overlap
           /\ returned[c].resp # ResponseFor(returned[c].req)
    /\ \E c \in Callers : HasReturned(c) /\ ~returned[c].overlap


(***************************************************************************)
(* The expander byte (power/controller.rs:45-143).  P0 = chr_en (active    *)
(* low), P1 = chr_otg (active high), P2 unused, P3 = chr_psel (active      *)
(* low), P4 = vbus_flg (input, active low), P5 = vbus_enable (active       *)
(* high), P6 = vbus_present (input, active low), P7 = dc_jack_present      *)
(* (input, active low).                                                    *)
(***************************************************************************)
Pow2(i) == IF i = 0 THEN 1 ELSE IF i = 1 THEN 2 ELSE IF i = 2 THEN 4
           ELSE IF i = 3 THEN 8 ELSE IF i = 4 THEN 16 ELSE IF i = 5 THEN 32
           ELSE IF i = 6 THEN 64 ELSE 128
Bit(b, i) == (b \div Pow2(i)) % 2
SetBit(b, i, v) == b - Bit(b, i) * Pow2(i) + v * Pow2(i)

set_chr_en(b, enabled) == SetBit(b, 0, IF enabled THEN 0 ELSE 1)
chr_en(b) == Bit(b, 0) = 0
set_chr_otg(b, enabled) == SetBit(b, 1, IF enabled THEN 1 ELSE 0)
chr_otg(b) == Bit(b, 1) # 0
chr_psel(b) == Bit(b, 3) = 0
set_vbus_enable(b, enabled) == SetBit(b, 5, IF enabled THEN 1 ELSE 0)
vbus_enable(b) == Bit(b, 5) # 0
vbus_flg(b) == Bit(b, 4) = 0
vbus_present(b) == Bit(b, 6) = 0
dc_jack_present(b) == Bit(b, 7) = 0

\* the levels the environment presents on the inputs P4 (vbus_flg) and P7
\* (dc_jack_present): both inactive; no decision of the program reads them.
\* P6 (vbus_present) follows the variable vbus.
InputLevels == {<<1, 1>>}

\* Pcf8574::get(P4 | P6 | P7) first writes the mask over the last byte set, which
\* releases the three input pins, then reads (power/controller.rs:414-424)
Released(latch) == SetBit(SetBit(SetBit(latch, 4, 1), 6, 1), 7, 1)

\* read_expander_status: the outputs read back as last written, the three
\* inputs as the environment drives them
read_expander_status(latch, in) ==
    SetBit(SetBit(SetBit(latch, 4, in[1]), 6, IF vbus THEN 0 ELSE 1), 7, in[2])

\* a snapshot that reports the boost converter as disabled whatever the GPIO
read_stats_boost_low(in) ==
    [boost_enabled |-> FALSE,
     expander_status |-> read_expander_status(expander, in)]
\* read_stats: the PowerControllerStats assembled from a successful read
read_stats(in) ==
    [boost_enabled |-> boost,
     expander_status |-> read_expander_status(expander, in)]

NoStats == [boost_enabled |-> FALSE, expander_status |-> -1]

(***************************************************************************)
(* switch_mode (power/controller.rs:348-396).  fault names the I2C         *)
(* transaction that fails: "expander" (the byte is not written), "charger" *)
(* (the byte is written, the charger register is not) or "none".  The      *)
(* result is the controller's state after the call and whether it returned *)
(* Ok.                                                                     *)
(***************************************************************************)
Modes == {"Passive", "Charging", "Otg"}

\* the mode table with Otg leaving vbus_enable on
ExpanderForModeOtgVbusOn(m, status) ==
    IF m = "Passive" THEN set_vbus_enable(set_chr_en(status, FALSE), TRUE)
    ELSE IF m = "Charging" THEN set_vbus_enable(set_chr_en(status, TRUE), TRUE)
    ELSE set_vbus_enable(set_chr_en(status, FALSE), TRUE)
\* the byte built from zero instead of from the status read
ExpanderForModeFromZero(m, status) ==
    IF m = "Passive" THEN set_vbus_enable(set_chr_en(0, FALSE), TRUE)
    ELSE IF m = "Charging" THEN set_vbus_enable(set_chr_en(0, TRUE), TRUE)
    ELSE set_vbus_enable(set_chr_en(0, FALSE), FALSE)
\* the byte switch_mode writes to the expander for mode m, from the status read
ExpanderForMode(m, status) ==
    IF m = "Passive" THEN set_vbus_enable(set_chr_en(status, FALSE), TRUE)
    ELSE IF m = "Charging" THEN set_vbus_enable(set_chr_en(status, TRUE), TRUE)
    ELSE set_vbus_enable(set_chr_en(status, FALSE), FALSE)
\* the charger bits with Otg leaving charging enabled
ChargerForModeOtgCharging(m) ==
    IF m = "Passive" THEN [charging |-> FALSE, otg |-> FALSE]
    ELSE IF m = "Charging" THEN [charging |-> TRUE, otg |-> FALSE]
    ELSE [charging |-> TRUE, otg |-> TRUE]
\* the charging/OTG bits switch_mode writes to the charger for mode m
ChargerForMode(m) ==
    IF m = "Passive" THEN [charging |-> FALSE, otg |-> FALSE]
    ELSE IF m = "Charging" THEN [charging |-> TRUE, otg |-> FALSE]
    ELSE [charging |-> FALSE, otg |-> TRUE]

switch_mode(m, status, fault) ==
    IF fault = "expander"
    THEN [ok |-> FALSE, expander |-> Released(expander), pocr |-> pocr,
          mode |-> mode]
    ELSE IF fault = "charger"
    THEN [ok |-> FALSE, expander |-> ExpanderForMode(m, status), pocr |-> pocr,
          mode |-> mode]
    ELSE [ok |-> TRUE, expander |-> ExpanderForMode(m, status),
          pocr |-> ChargerForMode(m), mode |-> m]

\* the controller after a call that wrote nothing
Unchanged(ok) == [ok |-> ok, expander |-> expander, pocr |-> pocr, mode |-> mode]
\* the controller after a call that only read the stats
OnlyRead(ok) ==
    [ok |-> ok, expander |-> Released(expander), pocr |-> pocr, mode |-> mode]

(***************************************************************************)
(* The requests and responses of the power mailbox (tasks/power.rs:25-34). *)
(* from and for are not in the code: they record who sent a request and    *)
(* which request a response was computed for.                              *)
(***************************************************************************)
NumClients == 1
Clients == 1..NumClients
\* the tasks that call the power mailbox besides the clients: the external
\* interrupt task and main; Nobody is the sender of no request
IrqTask == 0
MainTask == NumClients + 1
Nobody == 0 - 1
PowerCallers == {IrqTask, MainTask} \cup Clients
EnableBoostConverter(from, on) ==
    [from |-> from, m |-> "Passive", on |-> on, kind |-> "EnableBoostConverter"]
CheckInterrupt(from) ==
    [from |-> from, m |-> "Passive", on |-> FALSE, kind |-> "CheckInterrupt"]
SetMode(from, m) ==
    [from |-> from, m |-> m, on |-> FALSE, kind |-> "SetMode"]
NoCmd == [from |-> Nobody, m |-> "Passive", on |-> FALSE, kind |-> "none"]
\* a response that reports Ok whatever the result
PowerResponseAlwaysOk(status, req) ==
    [for |-> [from |-> req.from, kind |-> req.kind], status |-> "Ok"]
PowerResponse(status, req) ==
    [for |-> [from |-> req.from, kind |-> req.kind], status |-> status]
NoResp == PowerResponse("none", NoCmd)
\* capacity of POWER_CONTROL's FIFOs
PowerCap == 16

I2cFaults == {"none", "read", "expander", "charger"}

\* the re-evaluation that leaves Passive alone
handle_power_controller_interrupt_keep_passive(fault, in) ==
    IF fault = "read" THEN Unchanged(FALSE)
    ELSE LET stats == read_stats(in) IN
         IF mode = "Otg"
         THEN IF vbus_present(stats.expander_status)
              THEN switch_mode("Charging", stats.expander_status, fault)
              ELSE OnlyRead(TRUE)
         ELSE IF ~vbus_present(stats.expander_status) /\ mode = "Charging"
              THEN switch_mode("Otg", stats.expander_status, fault)
              ELSE OnlyRead(TRUE)
\* handle_power_controller_interrupt (tasks/power.rs:79-102)
handle_power_controller_interrupt(fault, in) ==
    IF fault = "read" THEN Unchanged(FALSE)
    ELSE LET stats == read_stats(in) IN
         IF mode = "Otg"
         THEN IF vbus_present(stats.expander_status)
              THEN switch_mode("Charging", stats.expander_status, fault)
              ELSE OnlyRead(TRUE)
         ELSE IF ~vbus_present(stats.expander_status)
              THEN switch_mode("Otg", stats.expander_status, fault)
              ELSE OnlyRead(TRUE)

\* both EnableBoostConverter arms drive the GPIO high
handle_power_controller_command_enable_only(cmd, fault, in) ==
    IF cmd.kind = "EnableBoostConverter"
    THEN [ctl |-> Unchanged(TRUE), boost |-> TRUE]
    ELSE IF cmd.kind = "CheckInterrupt"
    THEN [ctl |-> handle_power_controller_interrupt(fault, in), boost |-> boost]
    ELSE IF fault = "read"
    THEN [ctl |-> Unchanged(FALSE), boost |-> boost]
    ELSE [ctl |-> switch_mode(cmd.m, read_stats(in).expander_status, fault),
          boost |-> boost]
\* handle_power_controller_command (tasks/power.rs:104-133): the controller's
\* state after the command, the boost level, and the response
handle_power_controller_command(cmd, fault, in) ==
    IF cmd.kind = "EnableBoostConverter"
    THEN [ctl |-> Unchanged(TRUE), boost |-> cmd.on]
    ELSE IF cmd.kind = "CheckInterrupt"
    THEN [ctl |-> handle_power_controller_interrupt(fault, in), boost |-> boost]
    ELSE IF fault = "read"
    THEN [ctl |-> Unchanged(FALSE), boost |-> boost]
    ELSE [ctl |-> switch_mode(cmd.m, read_stats(in).expander_status, fault),
          boost |-> boost]

(***************************************************************************)
(* power_controller_task (tasks/power.rs:139-202).                         *)
(***************************************************************************)
WatchdogTimers == {"Disabled", "Seconds40", "Seconds80", "Seconds160"}
\* sleep_time with the 80 s window waiting 80 s
SleepTimeLate(w) ==
    IF w \in {"Disabled", "Seconds40"} THEN 20
    ELSE IF w = "Seconds80" THEN 80 ELSE 80
\* sleep_time, in seconds (tasks/power.rs:153-157)
SleepTime(w) ==
    IF w \in {"Disabled", "Seconds40"} THEN 20
    ELSE IF w = "Seconds80" THEN 40 ELSE 80
\* the charger's watchdog window, in seconds (0: no watchdog)
WatchdogWindow(w) ==
    IF w = "Disabled" THEN 0 ELSE IF w = "Seconds40" THEN 40
    ELSE IF w = "Seconds80" THEN 80 ELSE 160

\* 0xFF with the chr_otg bit cleared
SetupByteOtgCleared == set_chr_otg(255, FALSE)
\* setup_expander writes 0xFF with chr_otg set (power/controller.rs:266-273)
SetupByte == set_chr_otg(255, TRUE)

\* the faults since the last successful reset write, after one more of kind k
Faulted(f, k) == IF f = "write" \/ k = "write" THEN "write" ELSE "read"

\* the task goes on to the select whether or not the initial mode was applied
AfterHeadRegardless(ok) ==
    /\ ppc' = "select"
    /\ running' = IF ChanCanReceive(POWER_CONTROL.req) THEN "power" ELSE "none"
\* the task is suspended at the select and a request is (or is not) ready
AfterHead(ok) ==
    /\ ppc' = IF ok THEN "select" ELSE "backoff"
    /\ running' = IF ok /\ ChanCanReceive(POWER_CONTROL.req) THEN "power" ELSE "none"

InitPower ==
    /\ running = "none"
    /\ ppc = "new"
    /\ mode = "Passive"
    /\ boost = FALSE
    /\ expander = 255
    /\ pocr \in [charging : BOOLEAN, otg : BOOLEAN]
    /\ vbus \in BOOLEAN
    /\ initial_mode_set = FALSE
    /\ POWER_STATE = NoStats
    /\ POWER_CONTROL = [req |-> <<>>, resp |-> <<>>]
    /\ pcmd = NoCmd
    /\ presp = NoResp
    /\ irqPc = "wait_edge"
    /\ clientPc = [c \in Clients |-> "idle"]
    /\ clientReq = [c \in Clients |-> NoCmd]
    /\ waited = 0
    /\ sinceReset = 0
    /\ faultSinceReset = "none"
    /\ resetOwed = FALSE
    /\ resetAfter = "none"
    /\ ackedMode = "none"
    /\ returnedMode = "none"
    /\ published = FALSE
    /\ pubAfterAck = "none"

\* PowerController::new (power/controller.rs:242-264, tasks/power.rs:145-151)
power_new ==
    /\ ppc = "new"
    /\ running = "none"
    /\ \E fault \in {"none", "expander", "charger"} :
        /\ expander' = IF fault = "expander" THEN expander ELSE SetupByte
        /\ ppc' = IF fault = "none" THEN "head" ELSE "exited"
        /\ running' = IF fault = "none" THEN "power" ELSE "none"
    /\ sinceReset' = 0
    /\ UNCHANGED <<wdt, mode, boost, pocr, vbus, initial_mode_set, POWER_STATE,
                   POWER_CONTROL, pcmd, presp, callVars, waited, faultSinceReset,
                   histVars, otherVars>>

\* a failed stats read that ends the task
power_read_stats_failed_exits ==
    /\ ppc = "head"
    /\ running = "power"
    /\ ppc' = "exited"
    /\ running' = "none"
    /\ faultSinceReset' = Faulted(faultSinceReset, "read")
    /\ resetAfter' = "none"
    /\ UNCHANGED <<wdt, mode, boost, expander, pocr, vbus, initial_mode_set,
                   POWER_STATE, POWER_CONTROL, pcmd, presp, callVars, waited,
                   sinceReset, resetOwed, ackedMode, returnedMode, published,
                   pubAfterAck, otherVars>>
\* the stats read at the head of the loop fails (tasks/power.rs:162-169)
power_read_stats_failed ==
    /\ ppc = "head"
    /\ running = "power"
    /\ ppc' = "backoff"
    /\ running' = "none"
    /\ faultSinceReset' = Faulted(faultSinceReset, "read")
    /\ resetAfter' = "none"
    /\ UNCHANGED <<wdt, mode, boost, expander, pocr, vbus, initial_mode_set,
                   POWER_STATE, POWER_CONTROL, pcmd, presp, callVars, waited,
                   sinceReset, resetOwed, ackedMode, returnedMode, published,
                   pubAfterAck, otherVars>>

\* the stats read succeeds: publish, apply the initial mode if it is not set
\* yet, and start the wait (tasks/power.rs:162-189)
power_publish ==
    /\ ppc = "head"
    /\ running = "power"
    /\ \E in \in InputLevels, fault \in {"none", "expander", "charger"} :
        LET stats == read_stats(in)
            initial_mode == IF vbus_present(stats.expander_status)
                            THEN "Charging" ELSE "Otg"
            r == IF initial_mode_set THEN OnlyRead(TRUE)
                 ELSE switch_mode(initial_mode, stats.expander_status, fault)
        IN  /\ initial_mode_set => fault = "none"
            /\ POWER_STATE' = stats
            /\ expander' = r.expander
            /\ pocr' = r.pocr
            /\ mode' = r.mode
            /\ initial_mode_set' = r.ok
            /\ AfterHead(r.ok)
            /\ faultSinceReset' = IF r.ok THEN faultSinceReset
                                  ELSE Faulted(faultSinceReset, "write")
    /\ waited' = 0
    /\ published' = TRUE
    /\ pubAfterAck' = ackedMode
    /\ ackedMode' = "none"
    /\ returnedMode' = "none"
    /\ resetAfter' = "none"
    /\ UNCHANGED <<wdt, boost, vbus, POWER_CONTROL, pcmd, presp, callVars,
                   sinceReset, resetOwed, otherVars>>

\* Timer::after_millis(50) has elapsed (tasks/power.rs:167-168, 180-181)
power_backoff_done ==
    /\ ppc = "backoff"
    /\ running = "none"
    /\ ppc' = "head"
    /\ running' = "power"
    /\ published' = FALSE
    /\ pubAfterAck' = "none"
    /\ UNCHANGED <<wdt, mode, boost, expander, pocr, vbus, initial_mode_set,
                   POWER_STATE, POWER_CONTROL, pcmd, presp, callVars, timeVars,
                   resetOwed, ackedMode, returnedMode, resetAfter, otherVars>>

\* the select returns Either::First: the timeout (tasks/power.rs:186-191)
select_timeout ==
    /\ ppc = "select"
    /\ running = "none"
    /\ ppc' = "wdreset"
    /\ running' = "power"
    /\ resetOwed' = TRUE
    /\ pcmd' = NoCmd
    /\ presp' = NoResp
    /\ published' = FALSE
    /\ UNCHANGED <<wdt, mode, boost, expander, pocr, vbus, initial_mode_set,
                   POWER_STATE, POWER_CONTROL, callVars, timeVars, ackedMode,
                   returnedMode, pubAfterAck, resetAfter, otherVars>>

\* the timeout of a wait whose length is not tracked
power_timeout == select_timeout

\* the timeout once sleep_time has passed
power_timeout_at ==
    /\ waited >= SleepTime(wdt)
    /\ select_timeout

\* the select returns Either::Second(cmd): the command is handled
\* (tasks/power.rs:189-192)
power_handle_command ==
    /\ ppc = "select"
    /\ running \in {"none", "power"}
    /\ ChanCanReceive(POWER_CONTROL.req)
    /\ \E fault \in I2cFaults, in \in InputLevels :
        LET cmd == ChanFront(POWER_CONTROL.req)
            h == handle_power_controller_command(cmd, fault, in)
        IN  /\ pcmd' = cmd
            /\ presp' = PowerResponse(IF h.ctl.ok THEN "Ok" ELSE "Err", cmd)
            /\ expander' = h.ctl.expander
            /\ pocr' = h.ctl.pocr
            /\ mode' = h.ctl.mode
            /\ boost' = h.boost
            /\ faultSinceReset' =
                   IF h.ctl.ok THEN faultSinceReset
                   ELSE Faulted(faultSinceReset,
                                IF fault = "read" THEN "read" ELSE "write")
    /\ POWER_CONTROL' = [POWER_CONTROL EXCEPT !.req = ChanReceive(@)]
    /\ ppc' = "respond"
    /\ running' = "power"
    /\ resetOwed' = TRUE
    /\ published' = FALSE
    /\ pubAfterAck' = "none"
    /\ UNCHANGED <<wdt, vbus, initial_mode_set, POWER_STATE, callVars, waited,
                   sinceReset, ackedMode, returnedMode, resetAfter, otherVars>>

\* POWER_CONTROL.send_response(response).await (tasks/power.rs:193): the task
\* suspends here while the response FIFO is full
power_send_response ==
    /\ ppc = "respond"
    /\ running \in {"none", "power"}
    /\ IF ChanCanSend(POWER_CONTROL.resp, PowerCap)
       THEN /\ POWER_CONTROL' = [POWER_CONTROL EXCEPT !.resp = ChanSend(@, presp)]
            /\ ppc' = "wdreset"
            /\ running' = "power"
            /\ ackedMode' = IF pcmd.kind = "SetMode" /\ presp.status = "Ok"
                            THEN pcmd.m ELSE "none"
       ELSE /\ running = "power"
            /\ running' = "none"
            /\ UNCHANGED <<POWER_CONTROL, ppc, ackedMode>>
    /\ UNCHANGED <<wdt, mode, boost, expander, pocr, vbus, initial_mode_set,
                   POWER_STATE, pcmd, presp, callVars, timeVars, resetOwed,
                   returnedMode, published, pubAfterAck, resetAfter, otherVars>>

\* a reset_watchdog that is skipped after a command that answered Err
power_reset_watchdog_unless_err ==
    /\ ppc = "wdreset"
    /\ running = "power"
    /\ \E ok \in BOOLEAN :
        /\ sinceReset' = IF ok /\ presp.status # "Err" THEN 0 ELSE sinceReset
        /\ faultSinceReset' = IF ok /\ presp.status # "Err" THEN "none"
                              ELSE "write"
    /\ resetOwed' = (presp.status = "Err")
    /\ resetAfter' = IF presp.status = "Err" THEN "none"
                     ELSE IF pcmd = NoCmd THEN "timeout" ELSE presp.status
    /\ pcmd' = NoCmd
    /\ presp' = NoResp
    /\ ppc' = "head"
    /\ running' = "power"
    /\ UNCHANGED <<wdt, mode, boost, expander, pocr, vbus, initial_mode_set,
                   POWER_STATE, POWER_CONTROL, callVars, waited,
                   ackedMode, returnedMode, published, pubAfterAck, otherVars>>

\* pctl.reset_watchdog() at the end of the iteration (tasks/power.rs:196-200,
\* power/controller.rs:426-434); the write succeeds or fails
power_reset_watchdog ==
    /\ ppc = "wdreset"
    /\ running = "power"
    /\ \E ok \in BOOLEAN :
        /\ sinceReset' = IF ok THEN 0 ELSE sinceReset
        /\ faultSinceReset' = IF ok THEN "none" ELSE "write"
    /\ resetOwed' = FALSE
    /\ resetAfter' = IF pcmd = NoCmd THEN "timeout" ELSE presp.status
    /\ pcmd' = NoCmd
    /\ presp' = NoResp
    /\ ppc' = "head"
    /\ running' = "power"
    /\ UNCHANGED <<wdt, mode, boost, expander, pocr, vbus, initial_mode_set,
                   POWER_STATE, POWER_CONTROL, callVars, waited,
                   ackedMode, returnedMode, published, pubAfterAck, otherVars>>

PowerTask ==
    \/ power_new
    \/ power_read_stats_failed
    \/ power_publish
    \/ power_backoff_done
    \/ power_handle_command
    \/ power_send_response
    \/ power_reset_watchdog

(***************************************************************************)
(* The callers of the power mailbox.                                       *)
(***************************************************************************)
\* ext_interrupt_task: a falling edge, then power.check_interrupt()
\* (tasks/interrupt.rs:50-53)
irq_edge ==
    /\ irqPc = "wait_edge"
    /\ running = "none"
    /\ ChanCanSend(POWER_CONTROL.req, PowerCap)
    /\ POWER_CONTROL' = [POWER_CONTROL EXCEPT !.req = ChanSend(@, CheckInterrupt(IrqTask))]
    /\ irqPc' = "recv"
    /\ UNCHANGED <<running, ppc, wdt, mode, boost, expander, pocr, vbus,
                   initial_mode_set, POWER_STATE, pcmd, presp, clientPc,
                   clientReq, timeVars, histVars, otherVars>>

\* a falling edge while the task awaits check_interrupt's response
\* (tasks/interrupt.rs:53): wait_for_falling_edge is not pending, the edge
\* wakes nobody and is not latched
MaxPendingEdges == 2
irq_edge_unheard ==
    /\ irqPc = "recv"
    /\ running = "none"
    /\ edgesPending < MaxPendingEdges
    /\ edgesPending' = edgesPending + 1
    /\ UNCHANGED exceptIrq

\* ext_interrupt_task: check_interrupt returns (tasks/interrupt.rs:53-58)
irq_recv_response ==
    /\ irqPc = "recv"
    /\ running = "none"
    /\ ChanCanReceive(POWER_CONTROL.resp)
    /\ POWER_CONTROL' = [POWER_CONTROL EXCEPT !.resp = ChanReceive(@)]
    /\ irqPc' = "wait_edge"
    /\ UNCHANGED <<running, ppc, wdt, mode, boost, expander, pocr, vbus,
                   initial_mode_set, POWER_STATE, pcmd, presp, clientPc,
                   clientReq, timeVars, histVars, otherVars>>

\* a task calls PowerHandle::transact(req): the request is sent
\* (tasks/power.rs:213-228, channel.rs:34-35)
power_transact(c, req) ==
    /\ clientPc[c] = "idle"
    /\ running = "none"
    /\ ChanCanSend(POWER_CONTROL.req, PowerCap)
    /\ POWER_CONTROL' = [POWER_CONTROL EXCEPT !.req = ChanSend(@, req)]
    /\ clientPc' = [clientPc EXCEPT ![c] = "recv"]
    /\ clientReq' = [clientReq EXCEPT ![c] = req]
    /\ UNCHANGED <<running, ppc, wdt, mode, boost, expander, pocr, vbus,
                   initial_mode_set, POWER_STATE, pcmd, presp, irqPc, timeVars,
                   histVars, mbVars, adcVars, auxVars, pinVars, mainPc, mainPin,
                   clientPin>>

\* the sessions receive at most MaxSessionCmds commands
MaxSessionCmds == 1
SessionCommand ==
    /\ sessionCmds > 0
    /\ sessionCmds' = sessionCmds - 1

\* PowerHandle::set_boost_converter (tasks/power.rs:218-220), called by a
\* session for WebSocketCommand::Power "boost" (server.rs:407-416)
set_boost_converter(c) ==
    /\ SessionCommand
    /\ \E on \in BOOLEAN : power_transact(c, EnableBoostConverter(c, on))

\* PowerHandle::set_mode (tasks/power.rs:222-224)
set_mode(c) ==
    /\ \E m \in Modes : power_transact(c, SetMode(c, m))
    /\ UNCHANGED sessionCmds

\* PowerHandle::transact returns the head of the response FIFO
\* (channel.rs:36)
client_recv_response(c) ==
    /\ clientPc[c] = "recv"
    /\ running = "none"
    /\ ChanCanReceive(POWER_CONTROL.resp)
    /\ POWER_CONTROL' = [POWER_CONTROL EXCEPT !.resp = ChanReceive(@)]
    /\ clientPc' = [clientPc EXCEPT ![c] = "idle"]
    /\ clientReq' = [clientReq EXCEPT ![c] = NoCmd]
    /\ returnedMode' =
           IF clientReq[c].kind = "SetMode"
              /\ ChanFront(POWER_CONTROL.resp).status = "Ok"
           THEN clientReq[c].m ELSE returnedMode
    /\ UNCHANGED <<running, ppc, wdt, mode, boost, expander, pocr, vbus,
                   initial_mode_set, POWER_STATE, pcmd, presp, irqPc,
                   timeVars, resetOwed, ackedMode, published, pubAfterAck,
                   resetAfter, otherVars>>

\* environment: VBUS is plugged or unplugged
vbus_change ==
    /\ vbus' = ~vbus
    /\ UNCHANGED <<running, ppc, wdt, mode, boost, expander, pocr,
                   initial_mode_set, POWER_STATE, POWER_CONTROL, pcmd, presp,
                   callVars, timeVars, histVars, otherVars>>

(***************************************************************************)
(* Digital pin agents (tasks/digital_io.rs).  NumPins of the five pins     *)
(* D0..D4 are modelled.                                                    *)
(***************************************************************************)
NumPins == 2
Pins == 0..(NumPins - 1)
\* capacity of the FIFOs of DIGITAL_Dx_CHANNEL
PinCap == 4
PinModes == {"OpenDrain", "PushPull"}
SetStateCmd(from, v) ==
    [from |-> from, v |-> v, m |-> "OpenDrain", kind |-> "SetState"]
SetModeCmd(from, m) ==
    [from |-> from, v |-> FALSE, m |-> m, kind |-> "SetMode"]
NoPinState == <<"none", "none">>

\* a table whose open-drain rows ignore the level last driven
pin_state_by_readback(is_high, is_set_high, m) ==
    IF m = "OpenDrain"
    THEN IF is_high THEN "InHigh" ELSE "InLow"
    ELSE IF is_high /\ is_set_high THEN "DrivingHigh"
         ELSE IF ~is_high /\ ~is_set_high THEN "DrivingLow"
         ELSE "FunckingBad"
\* pin_state (tasks/digital_io.rs:144-161)
pin_state(is_high, is_set_high, m) ==
    IF m = "OpenDrain"
    THEN IF is_high /\ is_set_high THEN "InHigh"
         ELSE IF ~is_high /\ is_set_high THEN "InLow"
         ELSE IF ~is_high /\ ~is_set_high THEN "DrivingLow"
         ELSE "FunckingBad"
    ELSE IF is_high /\ is_set_high THEN "DrivingHigh"
         ELSE IF ~is_high /\ ~is_set_high THEN "DrivingLow"
         ELSE "FunckingBad"

\* the levels pin.is_high() may read: a floating open-drain pin follows the
\* external circuit (here: pulled up), a driven pin reads the level it drives
ExternalLevels == {TRUE}
Readback(m, is_set_high) ==
    IF m = "OpenDrain" /\ is_set_high THEN ExternalLevels ELSE {is_set_high}

\* every variable of the power mailbox's side but the mailbox itself
pwRest == <<ppc, wdt, mode, boost, expander, pocr, vbus, initial_mode_set,
            POWER_STATE, pcmd, presp>>

InitPins ==
    /\ pinPc = [p \in Pins |-> "new"]
    /\ pinTurn = 0
    /\ current_mode = [p \in Pins |-> "OpenDrain"]
    /\ pinLevel = [p \in Pins |-> TRUE]
    /\ DIGITAL_STATE = [p \in Pins |-> NoPinState]
    /\ DIGITAL_CHANNEL = [p \in Pins |-> [req |-> <<>>, resp |-> <<>>]]

\* the agent is the task that runs
PinRuns(p) == running = "pin" /\ pinTurn = p

\* digital_pin_task starts: Output::new with the initial mode and level
\* (tasks/digital_io.rs:170-193)
pin_start(p) ==
    /\ pinPc[p] = "new"
    /\ running = "none"
    /\ pinPc' = [pinPc EXCEPT ![p] = "publish"]
    /\ running' = "pin"
    /\ pinTurn' = p
    /\ UNCHANGED <<current_mode, pinLevel, DIGITAL_STATE, DIGITAL_CHANNEL,
                   pwVars, callVars, timeVars, histVars, idleVars, mainVars>>

\* sender.send((current_mode, pin_state(..))), then the select
\* (tasks/digital_io.rs:194-199)
pin_publish_reading(p, levels) ==
    /\ pinPc[p] = "publish"
    /\ PinRuns(p)
    /\ \E is_high \in levels :
        DIGITAL_STATE' = [DIGITAL_STATE EXCEPT ![p] =
            <<current_mode[p], pin_state(is_high, pinLevel[p], current_mode[p])>>]
    /\ pinPc' = [pinPc EXCEPT ![p] = "select"]
    /\ running' = IF ChanCanReceive(DIGITAL_CHANNEL[p].req) THEN "pin" ELSE "none"
    /\ UNCHANGED <<pinTurn, current_mode, pinLevel, DIGITAL_CHANNEL, pwVars,
                   callVars, timeVars, histVars, idleVars, mainVars>>
\* the readback follows the circuit of the board: pulled up when floating
pin_publish(p) == pin_publish_reading(p, Readback(current_mode[p], pinLevel[p]))
\* the readback is whatever the pad reads: an external circuit may pull a
\* floating pin low or fight a driven one
pin_publish_any_level(p) == pin_publish_reading(p, BOOLEAN)

\* the agents share one mode: SetMode sets the mode of every pin
pin_handle_command_shared_mode(p) ==
    /\ pinPc[p] = "select"
    /\ running = "none" \/ PinRuns(p)
    /\ ChanCanReceive(DIGITAL_CHANNEL[p].req)
    /\ LET command == ChanFront(DIGITAL_CHANNEL[p].req)
       IN  /\ pinLevel' = IF command.kind = "SetState"
                          THEN [pinLevel EXCEPT ![p] = command.v] ELSE pinLevel
           /\ current_mode' = IF command.kind = "SetMode"
                              THEN [q \in Pins |-> command.m]
                              ELSE current_mode
    /\ DIGITAL_CHANNEL' = [DIGITAL_CHANNEL EXCEPT ![p].req = ChanReceive(@)]
    /\ pinPc' = [pinPc EXCEPT ![p] = "respond"]
    /\ running' = "pin"
    /\ pinTurn' = p
    /\ UNCHANGED <<DIGITAL_STATE, pwVars, callVars, timeVars, histVars, idleVars,
                   mainVars>>
\* SetMode configures the pin anew, with the level high
pin_handle_command_mode_resets_level(p) ==
    /\ pinPc[p] = "select"
    /\ running = "none" \/ PinRuns(p)
    /\ ChanCanReceive(DIGITAL_CHANNEL[p].req)
    /\ LET command == ChanFront(DIGITAL_CHANNEL[p].req)
       IN  /\ pinLevel' = [pinLevel EXCEPT ![p] =
                              IF command.kind = "SetState" THEN command.v ELSE TRUE]
           /\ current_mode' = IF command.kind = "SetMode"
                              THEN [current_mode EXCEPT ![p] = command.m]
                              ELSE current_mode
    /\ DIGITAL_CHANNEL' = [DIGITAL_CHANNEL EXCEPT ![p].req = ChanReceive(@)]
    /\ pinPc' = [pinPc EXCEPT ![p] = "respond"]
    /\ running' = "pin"
    /\ pinTurn' = p
    /\ UNCHANGED <<DIGITAL_STATE, pwVars, callVars, timeVars, histVars, idleVars,
                   mainVars>>
\* Either::First(command): the command is applied (tasks/digital_io.rs:201-215)
pin_handle_command(p) ==
    /\ pinPc[p] = "select"
    /\ running = "none" \/ PinRuns(p)
    /\ ChanCanReceive(DIGITAL_CHANNEL[p].req)
    /\ LET command == ChanFront(DIGITAL_CHANNEL[p].req)
       IN  /\ pinLevel' = IF command.kind = "SetState"
                          THEN [pinLevel EXCEPT ![p] = command.v] ELSE pinLevel
           /\ current_mode' = IF command.kind = "SetMode"
                              THEN [current_mode EXCEPT ![p] = command.m]
                              ELSE current_mode
    /\ DIGITAL_CHANNEL' = [DIGITAL_CHANNEL EXCEPT ![p].req = ChanReceive(@)]
    /\ pinPc' = [pinPc EXCEPT ![p] = "respond"]
    /\ running' = "pin"
    /\ pinTurn' = p
    /\ UNCHANGED <<DIGITAL_STATE, pwVars, callVars, timeVars, histVars, idleVars,
                   mainVars>>

\* channel.send_response(()).await (tasks/digital_io.rs:205, 215): the agent
\* suspends here while the response FIFO is full
pin_send_response(p) ==
    /\ pinPc[p] = "respond"
    /\ running = "none" \/ PinRuns(p)
    /\ IF ChanCanSend(DIGITAL_CHANNEL[p].resp, PinCap)
       THEN /\ DIGITAL_CHANNEL' = [DIGITAL_CHANNEL EXCEPT ![p].resp = ChanSend(@, "unit")]
            /\ pinPc' = [pinPc EXCEPT ![p] = "publish"]
            /\ running' = "pin"
            /\ pinTurn' = p
       ELSE /\ PinRuns(p)
            /\ running' = "none"
            /\ UNCHANGED <<DIGITAL_CHANNEL, pinPc, pinTurn>>
    /\ UNCHANGED <<current_mode, pinLevel, DIGITAL_STATE, pwVars, callVars,
                   timeVars, histVars, idleVars, mainVars>>

\* Either::Second: an edge on the pin (tasks/digital_io.rs:220-222)
pin_edge(p) ==
    /\ pinPc[p] = "select"
    /\ running = "none"
    /\ pinPc' = [pinPc EXCEPT ![p] = "publish"]
    /\ running' = "pin"
    /\ pinTurn' = p
    /\ UNCHANGED <<current_mode, pinLevel, DIGITAL_STATE, DIGITAL_CHANNEL,
                   pwVars, callVars, timeVars, histVars, idleVars, mainVars>>

PinAgent(p) ==
    \/ pin_start(p)
    \/ pin_publish(p)
    \/ pin_handle_command(p)
    \/ pin_send_response(p)
    \/ pin_edge(p)
\* the agent on a pad whose readback is not constrained
PinAgentAnyLevel(p) ==
    \/ pin_start(p)
    \/ pin_publish_any_level(p)
    \/ pin_handle_command(p)
    \/ pin_send_response(p)
    \/ pin_edge(p)

(***************************************************************************)
(* WebSocket sessions (bin/www_test/server.rs:343-416): the clients.  A    *)
(* session awaits each command's transact before it reads the next         *)
(* message.                                                                *)
(***************************************************************************)
\* a transact on the mailbox of pin p is started
pin_transact(c, p, command) ==
    /\ SessionCommand
    /\ clientPc[c] = "idle"
    /\ running = "none"
    /\ ChanCanSend(DIGITAL_CHANNEL[p].req, PinCap)
    /\ DIGITAL_CHANNEL' = [DIGITAL_CHANNEL EXCEPT ![p].req = ChanSend(@, command)]
    /\ clientPc' = [clientPc EXCEPT ![c] = "pin_recv"]
    /\ clientPin' = [clientPin EXCEPT ![c] = p]
    /\ UNCHANGED <<running, pinPc, pinTurn, current_mode, pinLevel, DIGITAL_STATE,
                   pwVars, irqPc, clientReq, timeVars, histVars, idleVars, mainPc,
                   mainPin>>

\* WebSocketCommand::Digital: digital.set(pin, value != 0)
\* (server.rs:367-381, tasks/digital_io.rs:245-253)
session_digital(c) ==
    \E p \in Pins, v \in BOOLEAN : pin_transact(c, p, SetStateCmd(c, v))

\* WebSocketCommand::DigitalMode: digital.set_mode(pin, pin_mode)
\* (server.rs:382-406, tasks/digital_io.rs:260-268)
session_digital_mode(c) ==
    \E p \in Pins, m \in PinModes : pin_transact(c, p, SetModeCmd(c, m))

\* the session's set or set_mode returns (channel.rs:36)
session_pin_done(c) ==
    /\ clientPc[c] = "pin_recv"
    /\ running = "none"
    /\ ChanCanReceive(DIGITAL_CHANNEL[clientPin[c]].resp)
    /\ DIGITAL_CHANNEL' = [DIGITAL_CHANNEL EXCEPT ![clientPin[c]].resp = ChanReceive(@)]
    /\ clientPc' = [clientPc EXCEPT ![c] = "idle"]
    /\ clientPin' = [clientPin EXCEPT ![c] = 0]
    /\ UNCHANGED <<running, pinPc, pinTurn, current_mode, pinLevel, DIGITAL_STATE,
                   pwVars, irqPc, clientReq, timeVars, histVars, idleVars, mainPc,
                   mainPin, sessionCmds>>

\* WebSocketCommand::Power "boost" (server.rs:407-416) is set_boost_converter
Session(c) ==
    \/ session_digital(c)
    \/ session_digital_mode(c)
    \/ session_pin_done(c)
    \/ set_boost_converter(c)
    \/ client_recv_response(c)

(***************************************************************************)
(* main: the idle loop and the shutdown sequence                           *)
(* (bin/www_test/main.rs:139-183).                                         *)
(***************************************************************************)
InitMain ==
    /\ mainPc = "loop"
    /\ mainPin = 0
    /\ clientPin = [c \in Clients |-> 0]
    /\ sessionCmds = MaxSessionCmds

\* SHUTDOWN_SIGNAL.wait() returns; power.set_boost_converter(false) is sent
\* (main.rs:140-157)
main_shutdown ==
    /\ mainPc = "loop"
    /\ running = "none"
    /\ ChanCanSend(POWER_CONTROL.req, PowerCap)
    /\ POWER_CONTROL' = [POWER_CONTROL EXCEPT
           !.req = ChanSend(@, EnableBoostConverter(MainTask, FALSE))]
    /\ mainPc' = "boost"
    /\ UNCHANGED <<running, pwRest, callVars, timeVars, histVars, idleVars, pinVars,
                   mainPin, clientPin, sessionCmds>>

\* set_boost_converter returned; digital.set_mode(D0, OpenDrain) is sent
\* (main.rs:157-171)
main_boost_done ==
    /\ mainPc = "boost"
    /\ running = "none"
    /\ ChanCanReceive(POWER_CONTROL.resp)
    /\ ChanCanSend(DIGITAL_CHANNEL[0].req, PinCap)
    /\ POWER_CONTROL' = [POWER_CONTROL EXCEPT !.resp = ChanReceive(@)]
    /\ DIGITAL_CHANNEL' = [DIGITAL_CHANNEL EXCEPT
           ![0].req = ChanSend(@, SetModeCmd(MainTask, "OpenDrain"))]
    /\ mainPc' = "pin_mode"
    /\ mainPin' = 0
    /\ UNCHANGED <<running, pwRest, callVars, timeVars, histVars, idleVars, pinPc,
                   pinTurn, current_mode, pinLevel, DIGITAL_STATE, clientPin,
                   sessionCmds>>

\* set_mode(pin, OpenDrain) returned; digital.set(pin, true) is sent
\* (main.rs:171-172)
main_pin_mode_done ==
    /\ mainPc = "pin_mode"
    /\ running = "none"
    /\ ChanCanReceive(DIGITAL_CHANNEL[mainPin].resp)
    /\ ChanCanSend(DIGITAL_CHANNEL[mainPin].req, PinCap)
    /\ DIGITAL_CHANNEL' = [DIGITAL_CHANNEL EXCEPT
           ![mainPin] = [req |-> ChanSend(@.req, SetStateCmd(MainTask, TRUE)),
                         resp |-> ChanReceive(@.resp)]]
    /\ mainPc' = "pin_set"
    /\ UNCHANGED <<running, pwVars, callVars, timeVars, histVars, idleVars, pinPc,
                   pinTurn, current_mode, pinLevel, DIGITAL_STATE, mainPin,
                   clientPin, sessionCmds>>

\* set(pin, true) returned; the next pin's set_mode is sent (main.rs:170-173)
main_next_pin ==
    /\ mainPc = "pin_set"
    /\ mainPin < NumPins - 1
    /\ running = "none"
    /\ ChanCanReceive(DIGITAL_CHANNEL[mainPin].resp)
    /\ ChanCanSend(DIGITAL_CHANNEL[mainPin + 1].req, PinCap)
    /\ DIGITAL_CHANNEL' = [DIGITAL_CHANNEL EXCEPT
           ![mainPin].resp = ChanReceive(@),
           ![mainPin + 1].req = ChanSend(@, SetModeCmd(MainTask, "OpenDrain"))]
    /\ mainPc' = "pin_mode"
    /\ mainPin' = mainPin + 1
    /\ UNCHANGED <<running, pwVars, callVars, timeVars, histVars, idleVars, pinPc,
                   pinTurn, current_mode, pinLevel, DIGITAL_STATE, clientPin,
                   sessionCmds>>

\* the last pin's set(pin, true) returned; power.set_mode(Charging) is sent
\* (main.rs:172-175)
main_set_charging ==
    /\ mainPc = "pin_set"
    /\ mainPin = NumPins - 1
    /\ running = "none"
    /\ ChanCanReceive(DIGITAL_CHANNEL[mainPin].resp)
    /\ ChanCanSend(POWER_CONTROL.req, PowerCap)
    /\ DIGITAL_CHANNEL' = [DIGITAL_CHANNEL EXCEPT ![mainPin].resp = ChanReceive(@)]
    /\ POWER_CONTROL' = [POWER_CONTROL EXCEPT
           !.req = ChanSend(@, SetMode(MainTask, "Charging"))]
    /\ mainPc' = "charging"
    /\ UNCHANGED <<running, pwRest, callVars, timeVars, histVars, idleVars, pinPc,
                   pinTurn, current_mode, pinLevel, DIGITAL_STATE, mainPin,
                   clientPin, sessionCmds>>

\* set_mode(Charging) returned Ok or Err; rtc.sleep_deep(&[]): every task
\* stops (main.rs:175-182)
main_deep_sleep ==
    /\ mainPc = "charging"
    /\ running = "none"
    /\ ChanCanReceive(POWER_CONTROL.resp)
    /\ POWER_CONTROL' = [POWER_CONTROL EXCEPT !.resp = ChanReceive(@)]
    /\ mainPc' = "sleep"
    /\ running' = "halted"
    /\ UNCHANGED <<pwRest, callVars, timeVars, histVars, idleVars, pinVars, mainPin,
                   clientPin, sessionCmds>>

Main ==
    \/ main_shutdown
    \/ main_boost_done
    \/ main_pin_mode_done
    \/ main_next_pin
    \/ main_set_charging
    \/ main_deep_sleep

(***************************************************************************)
(* The ADC sampler and its buffer pub/sub channel (tasks/adc.rs), with the *)
(* sessions as subscribers (bin/www_test/server.rs:331, 359).              *)
(***************************************************************************)
\* u32 values are pairs of 16-bit halves
Half == 65536
U32(hi, lo) == [hi |-> hi, lo |-> lo]
\* (x + k) mod 2^32, for k < 2^16
AddMod32(x, k) ==
    [hi |-> (x.hi + ((x.lo + k) \div Half)) % Half, lo |-> (x.lo + k) % Half]
\* u32::MAX stays u32::MAX
next_sequence_saturating(x) ==
    IF x = U32(Half - 1, Half - 1) THEN x ELSE AddMod32(x, 1)
\* the sequence advances by two
next_sequence_twice(x) == AddMod32(x, 2)
\* sequence.wrapping_add(1) (tasks/adc.rs:238)
next_sequence(x) == AddMod32(x, 1)
NoSequence == U32(0 - 1, 0 - 1)

\* PubSubChannel<_, AdcBufferData, 2, 4, 1>: the queue's capacity
AdcBufferCap == 2
\* the open sessions, each holding one subscriber (at most 4)
NumSubs == 2
Subs == 1..NumSubs
\* the sampler publishes at most MaxBuffers buffers
MaxBuffers == 4

\* one channel of the seven stands for all: the code treats them alike.  A
\* buffer holds BufferLen samples (ADC_BUFFER_SIZE in the code), each a
\* calibrated reading in 0..MaxSample
BufferLen == 2
MaxSample == 1
SampleArrays == [1..BufferLen -> 0..MaxSample]
\* AdcBufferData (tasks/adc.rs:184-193)
AdcBufferData(seq, a0) == [sequence |-> seq, a0 |-> a0]
NoBuffer == AdcBufferData(NoSequence, <<>>)
NoSample == 0 - 1
\* the first sample of the buffer
first_sample(buffer) == buffer.a0[1]
\* buffer.a0[last_idx], last_idx = ADC_BUFFER_SIZE - 1 (tasks/adc.rs:224-233)
last_sample(buffer) == buffer.a0[BufferLen]
\* a full queue keeps what it holds and loses the new message
publish_immediate_keeps_oldest(queue, message) ==
    IF Len(queue) = AdcBufferCap
    THEN queue
    ELSE Append(queue, message)
\* publisher.publish_immediate(buffer): a full queue loses its oldest message
publish_immediate(queue, message) ==
    IF Len(queue) = AdcBufferCap
    THEN Append(Tail(queue), message)
    ELSE Append(queue, message)

InitAdc ==
    /\ ADC_BUFFER_DATA = <<>>
    /\ behind = [sub \in Subs |-> 0]
    /\ buffers = 0
    /\ subLast = [sub \in Subs |-> NoSequence]
    /\ subPrev = [sub \in Subs |-> NoSequence]
    /\ missed = [sub \in Subs |-> 0]
    /\ ADC_STATE = NoSample
    /\ lastPublished = NoBuffer

\* one iteration of adc_task's loop: the buffer is filled; its last sample
\* is sent to the scalar watch, the buffer is published, and the sequence
\* advances, with no await in between (tasks/adc.rs:183-239)
adc_publish ==
    /\ buffers < MaxBuffers
    /\ \E a0 \in SampleArrays :
        LET buffer == AdcBufferData(sequence, a0)
        IN  /\ ADC_STATE' = last_sample(buffer)
            /\ ADC_BUFFER_DATA' = publish_immediate(ADC_BUFFER_DATA,
                   [sequence |-> buffer.sequence, a0 |-> buffer.a0,
                    remaining |-> NumSubs])
            /\ lastPublished' = buffer
    /\ behind' = [sub \in Subs |-> behind[sub] + 1]
    /\ sequence' = next_sequence(sequence)
    /\ buffers' = buffers + 1
    /\ UNCHANGED <<subLast, subPrev, missed, running, pwVars, callVars, timeVars,
                   histVars, mbVars, pinVars, mainVars, auxVars>>

\* adc_buffer_subscriber.next_message_pure() returns a message
\* (server.rs:359): a subscriber whose next message has left the queue gets
\* Lagged(n), which next_message_pure drops, and goes on from the oldest
\* message the queue holds
next_message_pure(sub) ==
    /\ behind[sub] > 0
    /\ LET len    == Len(ADC_BUFFER_DATA)
           lagged == IF behind[sub] > len THEN behind[sub] - len ELSE 0
           left   == behind[sub] - lagged
           index  == len - left + 1
           item   == ADC_BUFFER_DATA[index]
       IN  /\ ADC_BUFFER_DATA' =
                  IF index = 1 /\ item.remaining = 1
                  THEN Tail(ADC_BUFFER_DATA)
                  ELSE [ADC_BUFFER_DATA EXCEPT ![index].remaining = @ - 1]
           /\ behind' = [behind EXCEPT ![sub] = left - 1]
           /\ subPrev' = [subPrev EXCEPT ![sub] = subLast[sub]]
           /\ subLast' = [subLast EXCEPT ![sub] = item.sequence]
           /\ missed' = [missed EXCEPT ![sub] = lagged]
    /\ UNCHANGED <<sequence, buffers, ADC_STATE, lastPublished, running, pwVars,
                   callVars, timeVars, histVars, mbVars, pinVars, mainVars,
                   auxVars>>

(***************************************************************************)
(* Time, for the specification that tracks it.  TimeUnit seconds pass      *)
(* while every task is suspended: in the power task's wait, whose timer    *)
(* fires when sleep_time has passed, or while the power task retries a     *)
(* failing head of its loop every 50 ms (tasks/power.rs:167, 180).  The    *)
(* time a run of a task takes is not counted.                              *)
(***************************************************************************)
TimeUnit == 20
MaxSince == 200
Min(a, b) == IF a < b THEN a ELSE b

tick ==
    /\ running = "none"
    /\ ppc \in {"select", "backoff"}
    /\ ppc = "select" => waited < SleepTime(wdt)
    /\ LET w == IF ppc = "select" THEN Min(waited + TimeUnit, SleepTime(wdt))
                ELSE waited
           d == IF ppc = "select" THEN w - waited ELSE TimeUnit
       IN  /\ waited' = w
           /\ sinceReset' = Min(sinceReset + d, MaxSince)
    /\ UNCHANGED <<running, pwVars, callVars, faultSinceReset, histVars, otherVars>>

\* the nine handles WebsocketHandler::run obtains, in the order it asks for them
SessionHandles == <<"power_state_receiver", "out1_receiver", "out2_receiver",
             "out3_receiver", "out4_receiver", "out5_receiver",
             "adc_state_receiver", "adc_buffer_subscriber", "uart_rx_subscriber">>
NumHandles == Len(SessionHandles)
\* the session takes at most MaxWsEvents events from its select
MaxWsEvents == 2
\* the session right after the upgrade: run has obtained nothing yet
InitSession ==
    /\ wsPc = "acquire"
    /\ wsHandles = <<>>
    /\ wsClose = <<>>
    /\ wsMsg = <<>>
    /\ wsEvents = MaxWsEvents
    /\ wsDispatched = <<>>
    /\ wsSent = <<>>
    /\ i2cProbed = <<>>

\* the default calibration of channel a0 (tasks/adc.rs:61); the buffer is
\* zeroed (tasks/adc.rs:184-193)
InitSample ==
    /\ calibration = 4774
    /\ raw = 0
    /\ millivolts = 0
\* the watches of a session's select, in the order the select polls them
\* (server.rs:344-355); the five pin watches are alike and one stands for them
Watches == <<"power_state", "adc_state", "out1">>
WatchIds == 1..Len(Watches)
\* nothing was sent to the watches and the socket is quiet
InitWatches ==
    /\ current_id = [w \in WatchIds |-> 0]
    /\ at_id = [w \in WatchIds |-> 0]
    /\ rxReady = FALSE
\* the UART TX queue is empty and uart_transmit_task waits for a vector
InitTx ==
    /\ UART_TX_CHANNEL = <<>>
    /\ txSendPc = "idle"
    /\ txEnqueued = 0
    /\ txPc = "receive"
    /\ txData = 0
    /\ txLog = <<>>
\* enter_shipping_mode has not been called; the charger's watchdog timer is
\* the configured one and the BATFET is enabled (power/controller.rs:277-320)
InitShip ==
    /\ watchdog_timer = "Seconds40"
    /\ batfet_disabled = FALSE
    /\ shipResult = "none"
    /\ shipWrites = <<>>
    /\ shipCalls = 0
\* the bus is free and neither task is in an I2C operation
InitBus ==
    /\ busBusy = "none"
    /\ busLog = <<>>
    /\ busPc = 0
    /\ busReq = "none"
    /\ busRequests = 0
    /\ wsBusOp = "none"
    /\ wsBusLeft = 0
    /\ wsBusOps = 0
\* number of WebSocket sessions that may be open at a time in the model
NumSessions == 4
Sessions == 1..NumSessions
\* the receivers that live as long as the firmware: the one main hands to
\* log_power_state_changes_task (bin/www_test/main.rs:86-87)
Permanent(h) == IF h = "power_state_receiver" THEN 1 ELSE 0
\* no session is open
InitHandles ==
    /\ receivers = [i \in 1..NumHandles |-> Permanent(SessionHandles[i])]
    /\ sesPc = [s \in Sessions |-> "idle"]
    /\ held = [s \in Sessions |-> 0]
    /\ sesRuns = 0
    /\ sesFailures = 0
\* the state at boot of what the last sections describe
InitLate ==
    InitSample /\ InitWatches /\ InitTx /\ InitShip /\ InitBus /\ InitHandles

\* the interrupt line and the UART at boot
InitAuxTasks ==
    /\ edgesPending = 0
    /\ uartPc = "read"
    /\ UART_RX_DATA = <<>>
    /\ uartBehind = [sub \in Subs |-> 0]
    /\ uartHeld = 0

\* the state at boot of what the later sections describe
InitAux == InitAuxTasks /\ InitSession /\ i2cAcks = {} /\ InitLate

(***************************************************************************)
(* Specifications.                                                         *)
(***************************************************************************)
\* the firmware's variables while only the generic mailbox is exercised
FirmwareAtBoot ==
    /\ InitAux /\ InitPower
    /\ InitPins
    /\ InitMain
    /\ InitAdc
    /\ sequence = U32(0, 0)
    /\ wdt = "Seconds160"
    /\ pocr = [charging |-> TRUE, otg |-> FALSE]
    /\ vbus = FALSE

\* the generic mailbox alone: the firmware's tasks do not run
InitMailboxSpec == InitMailbox /\ FirmwareAtBoot
NextMailboxSpec ==
    NextMailbox /\ UNCHANGED <<running, pwVars, callVars, timeVars, histVars,
                              pinVars, mainVars, adcVars, auxVars>>
SpecMailbox == InitMailboxSpec /\ [][NextMailboxSpec]_vars

ExtInterruptTask == irq_edge \/ irq_recv_response

\* the power controller task with the external interrupt task and client
\* tasks that set the mode; the default configuration
\* (power/controller.rs:198-224); waits of untracked length
InitPowerSpec ==
    /\ InitMailbox /\ InitAux /\ InitPower /\ InitPins /\ InitMain /\ wdt = "Seconds160"
    /\ InitAdc /\ sequence = U32(0, 0)
NextPower ==
    \/ PowerTask
    \/ power_timeout
    \/ ExtInterruptTask
    \/ \E c \in Clients : set_mode(c)
    \/ \E c \in Clients : client_recv_response(c)
    \/ vbus_change
SpecPower == InitPowerSpec /\ [][NextPower]_vars

\* the power controller task and the external interrupt task with time
\* tracked, for every watchdog period that can be configured
InitWatchdog ==
    /\ InitMailbox /\ InitAux /\ InitPower /\ InitPins /\ InitMain /\ wdt \in WatchdogTimers
    /\ InitAdc /\ sequence = U32(0, 0)
NextWatchdog == PowerTask \/ power_timeout_at \/ tick \/ ExtInterruptTask
SpecWatchdog == InitWatchdog /\ [][NextWatchdog]_vars

(***************************************************************************)
(* The watchdog obligation of the power controller task.                   *)
(***************************************************************************)
\* C3 (as stated): every iteration of the steady-state loop ends with the
\* watchdog-reset write: the loop never starts over from anywhere else,
\* whatever happened at the head of the iteration.
C3_EveryIterationResets ==
    [][(ppc # "new" /\ ppc' = "head") => ppc = "wdreset"]_vars

\* C3 (amended): every iteration whose wait ended, by the timeout or by a
\* request answered Ok or Err, issues the watchdog-reset write before the loop
\* starts over: no reset is owed while the task is at the head of the loop, backs
\* off or waits.
C3_ResetAfterEveryWait ==
    ppc \in {"new", "head", "backoff", "select", "exited"} => ~resetOwed

\* C3 witness: the reset write was just issued after a request that was
\* answered Err.
C3_Witness ==
    /\ ppc = "head"
    /\ resetAfter = "Err"
    /\ ~resetOwed

\* half the watchdog window, in seconds; 20 s when the watchdog is disabled
Deadline(w) == IF WatchdogWindow(w) = 0 THEN 20 ELSE WatchdogWindow(w) \div 2

\* C4 (as stated): while no I2C write of the power task has failed since the
\* last successful watchdog-reset write, no more than half the window has passed
\* since that write.
C4_DeadlineWhileWritesSucceed ==
    faultSinceReset # "write" => sinceReset <= Deadline(wdt)

\* C4 (amended): sleep_time is at most half the window, the wait is never longer
\* than sleep_time, and while no I2C transaction of the power task, read or
\* write, has failed since the last successful watchdog-reset write, no more
\* than half the window has passed since that write, however often requests
\* arrive.
C4_Deadline ==
    /\ SleepTime(wdt) <= Deadline(wdt)
    /\ waited <= SleepTime(wdt)
    /\ faultSinceReset = "none" => sinceReset <= Deadline(wdt)

\* C4 witness: with the 160 s window the wait lasted the whole sleep_time, the
\* timeout fired and the reset write succeeded.
C4_Witness ==
    /\ wdt = "Seconds160"
    /\ ppc = "head"
    /\ resetAfter = "timeout"
    /\ waited = SleepTime(wdt)
    /\ faultSinceReset = "none"
    /\ sinceReset = 0

(***************************************************************************)
(* Mode transitions and the published snapshot.                            *)
(***************************************************************************)
\* the snapshot shows the expander outputs of the mode table's row for m
ShowsRow(stats, m) ==
    /\ chr_en(stats.expander_status) = (m = "Charging")
    /\ vbus_enable(stats.expander_status) = (m # "Otg")
\* the charger bits of the mode table's row for m
ChargerRow(m) == [charging |-> (m = "Charging"), otg |-> (m = "Otg")]

Init == InitMailbox /\ FirmwareAtBoot
Next ==
    \/ PowerTask
    \/ power_timeout
    \/ ExtInterruptTask
    \/ \E p \in Pins : PinAgent(p)
    \/ \E c \in Clients : Session(c)
    \/ Main
Spec == Init /\ [][Next]_vars

\* the firmware without sessions, under fair scheduling: a task that is ready
\* again and again is eventually run (the executor runs one task at a time, so
\* a ready task is not enabled while another runs: strong fairness); edges,
\* I2C faults and the shutdown signal are the environment's
ShutdownSteps ==
    \/ main_boost_done
    \/ main_pin_mode_done
    \/ main_next_pin
    \/ main_set_charging
    \/ main_deep_sleep
NextFair ==
    \/ PowerTask
    \/ power_timeout
    \/ ExtInterruptTask
    \/ \E p \in Pins : PinAgent(p)
    \/ Main
FairSpec ==
    /\ Init
    /\ [][NextFair]_vars
    /\ SF_vars(PowerTask \/ power_timeout)
    /\ SF_vars(irq_recv_response)
    /\ \A p \in Pins : SF_vars(pin_start(p) \/ pin_publish(p)
                                 \/ pin_handle_command(p) \/ pin_send_response(p))
    /\ SF_vars(ShutdownSteps)

(***************************************************************************)
(* C2..C9: the callers of the mailboxes and the shutdown sequence.         *)
(***************************************************************************)
One(b) == IF b THEN 1 ELSE 0
\* the transacts outstanding on the power-controller mailbox
PowerOutstanding ==
    One(irqPc = "recv") + Cardinality({c \in Clients : clientPc[c] = "recv"})
    + One(mainPc \in {"boost", "charging"})
\* the transacts outstanding on the mailbox of pin p
PinOutstanding(p) ==
    Cardinality({c \in Clients : clientPc[c] = "pin_recv" /\ clientPin[c] = p})
    + One(mainPc \in {"pin_mode", "pin_set"} /\ mainPin = p)

\* C2: at most one transact is outstanding at any time on the power-controller
\* mailbox and on each digital-pin mailbox, counting the external-interrupt
\* task, the sessions and the shutdown sequence
C2_OneOutstanding ==
    /\ PowerOutstanding <= 1
    /\ \A p \in Pins : PinOutstanding(p) <= 1

\* a request of `who` waits in the FIFO q
QueuedFrom(q, who) == \E i \in 1..Len(q) : q[i].from = who
Floating(record) ==
    record[1] = "OpenDrain" /\ record[2] \in {"InHigh", "InLow"}

\* C6: when the device enters deep sleep the boost-enable GPIO is low and the
\* last published PowerStats has boost_enabled = false, the last published
\* record of every pin is (OpenDrain, InHigh or InLow), and the power
\* controller's mode is Charging
C6_ShutdownEndState ==
    mainPc = "sleep" =>
        /\ ~boost
        /\ ~POWER_STATE.boost_enabled
        /\ \A p \in Pins : Floating(DIGITAL_STATE[p])
        /\ mode = "Charging"

\* C7: the orchestrator takes each step of the shutdown sequence only after
\* the previous step was answered: the pins are begun after
\* EnableBoostConverter(false) was handled, the charger is switched after
\* every pin's SetMode(OpenDrain) and SetState(true) were handled, and deep
\* sleep is entered after SetMode(Charging) was handled
C7_ShutdownOrder ==
    /\ mainPc \in {"pin_mode", "pin_set", "charging", "sleep"} =>
           \A i \in 1..Len(POWER_CONTROL.req) :
               ~(POWER_CONTROL.req[i].from = MainTask
                 /\ POWER_CONTROL.req[i].kind = "EnableBoostConverter")
    /\ mainPc \in {"charging", "sleep"} =>
           \A p \in Pins : ~QueuedFrom(DIGITAL_CHANNEL[p].req, MainTask)
    /\ mainPc = "sleep" => ~QueuedFrom(POWER_CONTROL.req, MainTask)

\* C8: once the shutdown signal has been raised the device eventually enters
\* deep sleep, under fair scheduling of the tasks
C8_ShutdownLiveness == (mainPc # "loop") ~> (mainPc = "sleep")

\* the caller awaits the response of a transact on the mailbox of pin p
AwaitsPin(who, p) ==
    IF who = MainTask
    THEN mainPc \in {"pin_mode", "pin_set"} /\ mainPin = p
    ELSE clientPc[who] = "pin_recv" /\ clientPin[who] = p

\* C9: when set(id, v) or set_mode(id, m) has returned to its caller the
\* command was applied to the pin and the record computed after it is in the
\* pin's watch: no command of a caller that is not waiting is still in the
\* pin's request FIFO or applied and not yet published
C9_ReturnAfterPublish ==
    \A p \in Pins : \A who \in Clients \cup {MainTask} :
        ~AwaitsPin(who, p) => ~QueuedFrom(DIGITAL_CHANNEL[p].req, who)

(***************************************************************************)
(* C10: the ADC buffers at a subscriber.  The sampler and the subscribers  *)
(* run, from boot (sequence 0) or from shortly before the sequence wraps,  *)
(* with the queue empty.                                                   *)
(***************************************************************************)
StartSequences == {U32(0, 0), U32(Half - 1, Half - 2)}
InitAdcSpec ==
    /\ InitMailbox /\ InitAux /\ InitPower /\ InitPins /\ InitMain /\ wdt = "Seconds160"
    /\ pocr = [charging |-> TRUE, otg |-> FALSE]
    /\ vbus = FALSE
    /\ InitAdc
    /\ sequence \in StartSequences
NextAdc ==
    \/ adc_publish
    \/ \E sub \in Subs : next_message_pure(sub)
SpecAdc == InitAdcSpec /\ [][NextAdc]_vars

\* C10 as stated: for every two consecutive AdcBuffer messages received by a
\* subscriber, next.sequence = (prev.sequence + 1) mod 2^32, however slowly
\* the subscriber consumes
C10_ConsecutivePlusOne ==
    \A sub \in Subs :
        subPrev[sub] # NoSequence => subLast[sub] = AddMod32(subPrev[sub], 1)

\* C10: for every two consecutive AdcBuffer messages received by a
\* subscriber, next.sequence = (prev.sequence + 1 + n) mod 2^32, where n is
\* the number of buffers the subscriber lost between the two (the amount of
\* the Lagged results in between); a subscriber whose next message is still
\* in the queue receives prev.sequence + 1 next
C10_SequenceGapIsLoss ==
    \A sub \in Subs :
        /\ subPrev[sub] # NoSequence =>
               subLast[sub] = AddMod32(subPrev[sub], 1 + missed[sub])
        /\ (/\ subLast[sub] # NoSequence
            /\ behind[sub] > 0
            /\ behind[sub] <= Len(ADC_BUFFER_DATA)) =>
               ADC_BUFFER_DATA[Len(ADC_BUFFER_DATA) - behind[sub] + 1].sequence
                   = AddMod32(subLast[sub], 1)
\* a slow subscriber lost a buffer across the wrap of the sequence
C10_Witness ==
    \E sub \in Subs :
        /\ subPrev[sub] = U32(Half - 1, Half - 2)
        /\ subLast[sub] = U32(0, 0)
        /\ missed[sub] = 1

\* C11: the sampler's publications carry consecutive sequence numbers: the
\* first one the sequence the sampler starts with (0 at boot), every later
\* one the previous one's plus 1 mod 2^32, none skipped or repeated, also
\* when the publication pushes an unread buffer out of the queue
C11_PublisherSequence ==
    [][buffers' # buffers =>
          /\ lastPublished'.sequence = sequence
          /\ buffers = 0 => lastPublished = NoBuffer /\ sequence \in StartSequences
          /\ buffers > 0 => lastPublished'.sequence = AddMod32(lastPublished.sequence, 1)
          /\ ADC_BUFFER_DATA'[Len(ADC_BUFFER_DATA')].sequence = lastPublished'.sequence
      ]_vars
\* the publication of sequence 0 after 2^32 - 1 overran a subscriber that has
\* read nothing
C11_Witness ==
    /\ lastPublished.sequence = U32(0, 0)
    /\ buffers = 3
    /\ \E sub \in Subs : behind[sub] = 3

\* C12: whenever another task can run, the ADC scalar watch holds the sample
\* at index L-1 of the buffer published last, and nothing before the first
\* publication
C12_ScalarIsLastOfLatest ==
    IF lastPublished = NoBuffer
    THEN ADC_STATE = NoSample
    ELSE ADC_STATE = lastPublished.a0[BufferLen]
\* the scalar differs from the first sample of the latest buffer and from the
\* last sample of the buffer before
C12_Witness ==
    /\ Len(ADC_BUFFER_DATA) = 2
    /\ lastPublished.a0 = <<0, 1>>
    /\ ADC_BUFFER_DATA[1].a0[BufferLen] = 0
    /\ ADC_STATE = 1

(***************************************************************************)
(* C13..C19: the power controller's requests and its loop.                 *)
(***************************************************************************)
\* the power task takes a request of the given kind and handles it
Handles(kind) == ppc = "select" /\ ppc' = "respond" /\ pcmd'.kind = kind

\* C13: a CheckInterrupt that returns Ok leaves the mode Charging if the mode
\* was Otg and VBUS is read present, leaves it Otg if the mode was not Otg
\* and VBUS is read absent, and otherwise leaves the mode, the charger's
\* charging/OTG bits and the expander's outputs as they were (the stats read
\* releases the expander's input pins and writes nothing else)
C13_CheckInterruptReevaluates ==
    [][(Handles("CheckInterrupt") /\ presp'.status = "Ok") =>
          IF mode = "Otg" /\ vbus THEN mode' = "Charging"
          ELSE IF mode # "Otg" /\ ~vbus THEN mode' = "Otg"
          ELSE /\ mode' = mode
               /\ pocr' = pocr
               /\ expander' = Released(expander)
      ]_vars
\* a CheckInterrupt has switched Otg, which the snapshot of this iteration
\* still shows, to Charging
C13_Witness ==
    /\ ppc = "respond"
    /\ pcmd.kind = "CheckInterrupt"
    /\ presp.status = "Ok"
    /\ ShowsRow(POWER_STATE, "Otg")
    /\ vbus
    /\ mode = "Charging"

\* a switch_mode(m, stats) returns Ok in this step: for a SetMode(m), for a
\* CheckInterrupt that re-evaluates to m, or for the initial mode m
SwitchModeOk(m) ==
    \/ Handles("SetMode") /\ presp'.status = "Ok" /\ pcmd'.m = m
    \/ /\ Handles("CheckInterrupt") /\ presp'.status = "Ok"
       /\ \/ mode = "Otg" /\ vbus /\ m = "Charging"
          \/ mode # "Otg" /\ ~vbus /\ m = "Otg"
    \/ /\ ~initial_mode_set /\ initial_mode_set'
       /\ m = IF vbus THEN "Charging" ELSE "Otg"

\* C14: a switch_mode(m, stats) that returns Ok has written the expander byte
\* with (chr_en, vbus_enable) = (off, on) for Passive, (on, on) for Charging,
\* (off, off) for Otg, has written the charger's (charging, OTG) bits as
\* (off, off), (on, off), (off, on) respectively, and has recorded m; once a
\* switch_mode has succeeded, charging and OTG are never enabled together
C14_ModeTable ==
    [][/\ \A m \in Modes : SwitchModeOk(m) =>
              /\ chr_en(expander') = (m = "Charging")
              /\ vbus_enable(expander') = (m # "Otg")
              /\ pocr'.charging = (m = "Charging")
              /\ pocr'.otg = (m = "Otg")
              /\ mode' = m
       /\ initial_mode_set' => ~(pocr'.charging /\ pocr'.otg)
      ]_vars
\* a SetMode(Passive) has returned Ok after the mode was Otg
C14_Witness ==
    /\ ppc = "respond"
    /\ pcmd.kind = "SetMode" /\ pcmd.m = "Passive"
    /\ presp.status = "Ok"
    /\ ShowsRow(POWER_STATE, "Otg")
    /\ mode = "Passive"
    /\ pocr = [charging |-> FALSE, otg |-> FALSE]
    /\ ~chr_en(expander) /\ vbus_enable(expander)

\* the initial mode is applied in this step
AppliesInitialMode == ~initial_mode_set /\ initial_mode_set'
InitialMode(stats) ==
    IF vbus_present(stats.expander_status) THEN "Charging" ELSE "Otg"

C16_SnapshotBoostIsGpio ==
    [][(ppc = "head" /\ published') =>
           /\ POWER_STATE'.boost_enabled = boost
           /\ boost' = boost
      ]_vars
\* a snapshot with the boost converter enabled was published after the
\* shutdown sequence had started
C16_Witness ==
    /\ published
    /\ POWER_STATE.boost_enabled
    /\ boost
    /\ mainPc = "boost"

\* C17: EnableBoostConverter(x) is answered Ok and leaves the boost GPIO at x;
\* it changes neither the recorded mode nor the expander nor the charger; no
\* other step of the program moves the GPIO, so the level after any sequence
\* of requests and I2C failures is the x of the last EnableBoostConverter
C17_BoostCommand ==
    [][/\ Handles("EnableBoostConverter") =>
              /\ presp'.status = "Ok"
              /\ boost' = pcmd'.on
              /\ mode' = mode /\ expander' = expander /\ pocr' = pocr
       /\ ~Handles("EnableBoostConverter") => boost' = boost
      ]_vars
\* the converter was enabled, a snapshot published, an I2C transaction failed,
\* and a second EnableBoostConverter has just switched it off
C17_Witness ==
    /\ ppc = "respond"
    /\ pcmd.kind = "EnableBoostConverter" /\ ~pcmd.on
    /\ presp.status = "Ok"
    /\ ~boost
    /\ POWER_STATE.boost_enabled
    /\ faultSinceReset # "none"

\* the stats read at the head of the loop fails in this step: the task leaves
\* the head without having written the watch in this iteration
HeadReadFails == ppc = "head" /\ ppc' # "head" /\ ~published'

\* C18: when the stats read at the head of the loop fails, nothing is written
\* to the POWER_STATE watch in that iteration, the task backs off (50 ms) and
\* then retries the read at the head; the task does not terminate, however
\* many reads fail in a row
C18_ReadFailureBacksOff ==
    [][/\ ppc = "head" => ~published
       /\ HeadReadFails =>
              /\ POWER_STATE' = POWER_STATE
              /\ ppc' = "backoff"
       /\ ppc = "backoff" =>
              /\ POWER_STATE' = POWER_STATE
              /\ ppc' \in {"backoff", "head"}
              /\ ppc' = "head" => ~published'
       /\ ppc \notin {"new", "exited"} => ppc' # "exited"
      ]_vars
\* in the steady state a read has failed; the watch still holds the snapshot
\* of an earlier iteration
C18_Witness ==
    /\ ppc = "backoff"
    /\ ~published
    /\ initial_mode_set
    /\ POWER_STATE # NoStats
    /\ faultSinceReset = "read"

\* the power task handles a SetMode or a CheckInterrupt in this step
HandlesI2cCommand == Handles("SetMode") \/ Handles("CheckInterrupt")
\* the response computed for the handled request is Err exactly when an I2C
\* transaction failed while executing it, and then the mode is not recorded
ErrOnI2cFailure ==
    HandlesI2cCommand =>
        /\ presp'.for = [from |-> pcmd'.from, kind |-> pcmd'.kind]
        /\ presp'.status \in {"Ok", "Err"}
        /\ presp'.status = "Ok" => faultSinceReset' = faultSinceReset
        /\ presp'.status = "Err" => faultSinceReset' # "none" /\ mode' = mode
\* one request is taken per handling step and one response is sent for it
OneResponsePerRequest ==
    /\ Len(POWER_CONTROL'.req) < Len(POWER_CONTROL.req) =>
           /\ ppc = "select" /\ ppc' = "respond"
           /\ POWER_CONTROL'.req = Tail(POWER_CONTROL.req)
           /\ pcmd' = Head(POWER_CONTROL.req)
    /\ ppc = "respond" => ppc' \in {"respond", "wdreset"}
    /\ POWER_CONTROL'.resp # POWER_CONTROL.resp /\ Len(POWER_CONTROL'.resp) >= Len(POWER_CONTROL.resp) =>
           /\ ppc = "respond" /\ ppc' = "wdreset"
           /\ POWER_CONTROL'.resp = Append(POWER_CONTROL.resp, presp)
    /\ (ppc = "respond" /\ ppc' = "wdreset") =>
           POWER_CONTROL'.resp = Append(POWER_CONTROL.resp, presp)
\* once set up, the task never ends
NeverTerminates == ppc \notin {"new", "exited"} => ppc' # "exited"
\* the response a caller takes off the FIFO in this step was computed for it
ReceivesOwnResponse ==
    /\ irqPc = "recv" /\ irqPc' # "recv" =>
           ChanFront(POWER_CONTROL.resp).for.from = IrqTask
    /\ \A c \in Clients : clientPc[c] = "recv" /\ clientPc'[c] # "recv" =>
           ChanFront(POWER_CONTROL.resp).for.from = c
\* the task is at the head of the iteration that follows a failed reset write
AfterFailedReset ==
    ppc = "head" /\ resetAfter # "none" /\ faultSinceReset = "write"

\* C19 (as stated): an I2C failure in SetMode or CheckInterrupt comes back to
\* the requester as Err, one response per request; the task never ends, and
\* the iteration that follows a failed watchdog reset attempts the reset
\* again (it does not start over before the reset)
C19_ErrToRequesterResetNextIteration ==
    [][/\ ErrOnI2cFailure
       /\ ReceivesOwnResponse
       /\ OneResponsePerRequest
       /\ NeverTerminates
       /\ AfterFailedReset => ppc' \in {"head", "select"}
      ]_vars

\* C19: an I2C failure in SetMode or CheckInterrupt makes the response to
\* that request Err, with exactly one response sent per request received;
\* neither that failure nor a failed watchdog reset ends the task: it goes
\* on to the next iteration, and every iteration that reaches the wait
\* attempts the watchdog reset again after the wait
C19_ErrAndCarryOn ==
    [][/\ ErrOnI2cFailure
       /\ OneResponsePerRequest
       /\ NeverTerminates
       /\ ppc = "wdreset" => ppc' \in {"wdreset", "head"}
       /\ AfterFailedReset => ppc' \in {"head", "select", "backoff"}
       /\ ppc = "select" => ppc' \in {"select", "respond", "wdreset"}
       /\ (ppc = "wdreset" /\ ppc' = "head") => ~resetOwed'
      ]_vars
\* a SetMode failed and was answered Err, the reset write that followed failed
\* too, and the task is at the head of the next iteration
C19_Witness ==
    /\ AfterFailedReset
    /\ resetAfter = "Err"
    /\ mode = "Otg"
    /\ Len(POWER_CONTROL.resp) = 1
    /\ POWER_CONTROL.resp[1].status = "Err"
    /\ POWER_CONTROL.resp[1].for.kind = "SetMode"

\* C20: every request sent to the power-controller mailbox eventually gets
\* its response, under fair scheduling and whatever I2C transactions fail:
\* neither the external-interrupt task nor the shutdown sequence waits in
\* transact forever (a caller cut off by deep sleep is not counted)
C20_EveryRequestAnswered ==
    /\ (irqPc = "recv") ~> (irqPc # "recv" \/ mainPc = "sleep")
    /\ (mainPc = "boost") ~> (mainPc # "boost")
    /\ (mainPc = "charging") ~> (mainPc # "charging")

(***************************************************************************)
(* The pin agents with a session that sends them commands; any readback.   *)
(***************************************************************************)
\* the session sends at most MaxPinCmds commands
MaxPinCmds == 3
InitPinsSpec ==
    /\ InitMailbox /\ InitAux /\ InitPower /\ InitPins /\ InitAdc
    /\ mainPc = "loop" /\ mainPin = 0
    /\ clientPin = [c \in Clients |-> 0]
    /\ sessionCmds = MaxPinCmds
    /\ sequence = U32(0, 0)
    /\ wdt = "Seconds160"
    /\ pocr = [charging |-> TRUE, otg |-> FALSE]
    /\ vbus = FALSE
NextPins ==
    \/ \E p \in Pins : PinAgentAnyLevel(p)
    \/ \E c \in Clients : session_digital(c)
    \/ \E c \in Clients : session_digital_mode(c)
    \/ \E c \in Clients : session_pin_done(c)
SpecPins == InitPinsSpec /\ [][NextPins]_vars

\* the table of the pin states, row by row
PinStateTable(is_high, is_set_high, m) ==
    CASE m = "OpenDrain" /\ is_high /\ is_set_high -> "InHigh"
      [] m = "OpenDrain" /\ ~is_high /\ is_set_high -> "InLow"
      [] m = "OpenDrain" /\ ~is_high /\ ~is_set_high -> "DrivingLow"
      [] m = "OpenDrain" /\ is_high /\ ~is_set_high -> "FunckingBad"
      [] m = "PushPull" /\ is_high /\ is_set_high -> "DrivingHigh"
      [] m = "PushPull" /\ ~is_high /\ ~is_set_high -> "DrivingLow"
      [] m = "PushPull" /\ is_high # is_set_high -> "FunckingBad"
\* the agent of pin p publishes in this step
Publishes(p) == pinPc[p] = "publish" /\ pinPc'[p] = "select"

\* C21: the record a pin agent publishes is (mode, state) with state the table
\* function of (is_high, is_set_high, mode) for one of the two readbacks, so
\* an OpenDrain pin whose last commanded level is high is published as InHigh
\* or InLow only
C21_PinStateTable ==
    [][\A p \in Pins : Publishes(p) =>
          /\ DIGITAL_STATE'[p][1] = current_mode[p]
          /\ \E is_high \in BOOLEAN :
                 DIGITAL_STATE'[p][2] =
                     PinStateTable(is_high, pinLevel[p], current_mode[p])
          /\ (current_mode[p] = "OpenDrain" /\ pinLevel[p]) =>
                 DIGITAL_STATE'[p][2] \in {"InHigh", "InLow"}
          /\ (current_mode[p] = "OpenDrain" /\ ~pinLevel[p]) =>
                 DIGITAL_STATE'[p][2] \in {"DrivingLow", "FunckingBad"}
          /\ (current_mode[p] = "PushPull" /\ pinLevel[p]) =>
                 DIGITAL_STATE'[p][2] \in {"DrivingHigh", "FunckingBad"}
          /\ (current_mode[p] = "PushPull" /\ ~pinLevel[p]) =>
                 DIGITAL_STATE'[p][2] \in {"DrivingLow", "FunckingBad"}
      ]_vars
\* one pin was published InLow while floating, the other as inconsistent
\* in open drain with the level driven low
C21_Witness ==
    /\ DIGITAL_STATE[0] = <<"OpenDrain", "InLow">>
    /\ current_mode[0] = "OpenDrain" /\ pinLevel[0]
    /\ DIGITAL_STATE[1] = <<"OpenDrain", "FunckingBad">>
    /\ ~pinLevel[1]

(***************************************************************************)
(* The external interrupt task with edges at any time on the IRQ line.     *)
(***************************************************************************)
NextIrq ==
    \/ PowerTask
    \/ power_timeout
    \/ ExtInterruptTask
    \/ irq_edge_unheard
SpecIrq == InitPowerSpec /\ [][NextIrq]_vars

\* C22: every falling edge on the IRQ line results in a CheckInterrupt sent
\* to the power controller, also an edge that falls while the task awaits
\* the response to an earlier CheckInterrupt: no edge is left without one
C22_EveryEdgeChecked == edgesPending = 0

(***************************************************************************)
(* The UART receive task and its pub/sub channel (tasks/uart.rs), with the *)
(* sessions as subscribers (bin/www_test/server.rs:336, 360).              *)
(***************************************************************************)
\* capacity of UART_RX_DATA
UartRxCap == 4
\* a batch has 1..MaxUartBytes bytes (MAX_UART_BATCH in the code)
MaxUartBytes == 2
\* the queue after a batch of n bytes was pushed for every subscriber
UartQueued(n) == Append(UART_RX_DATA, [bytes |-> n, remaining |-> NumSubs])

\* uart_rx.read_async returns Ok(n), n > 0, and the batch is published with
\* publisher.publish(data).await (tasks/uart.rs:44-52): the batch is queued
\* when the queue has room, otherwise the task suspends in publish.  Ok(0)
\* and Err change nothing and the task reads again.
uart_receive ==
    /\ uartPc = "read"
    /\ running = "none"
    /\ \E n \in 1..MaxUartBytes :
        IF Len(UART_RX_DATA) < UartRxCap
        THEN /\ UART_RX_DATA' = UartQueued(n)
             /\ uartBehind' = [sub \in Subs |-> uartBehind[sub] + 1]
             /\ UNCHANGED <<uartPc, uartHeld>>
        ELSE /\ uartPc' = "publish"
             /\ uartHeld' = n
             /\ UNCHANGED <<UART_RX_DATA, uartBehind>>
    /\ UNCHANGED exceptUart

\* the suspended publish completes once the oldest batch has left the queue
\* (tasks/uart.rs:52)
uart_publish_resumes ==
    /\ uartPc = "publish"
    /\ running = "none"
    /\ Len(UART_RX_DATA) < UartRxCap
    /\ UART_RX_DATA' = UartQueued(uartHeld)
    /\ uartBehind' = [sub \in Subs |-> uartBehind[sub] + 1]
    /\ uartPc' = "read"
    /\ uartHeld' = 0
    /\ UNCHANGED exceptUart

\* uart_rx_subscriber.next_message_pure() returns a batch (server.rs:360);
\* the batch leaves the queue when its last subscriber has read it
uart_next_message(sub) ==
    /\ uartBehind[sub] > 0
    /\ running = "none"
    /\ LET index == Len(UART_RX_DATA) - uartBehind[sub] + 1
       IN  UART_RX_DATA' =
               IF index = 1 /\ UART_RX_DATA[index].remaining = 1
               THEN Tail(UART_RX_DATA)
               ELSE [UART_RX_DATA EXCEPT ![index].remaining = @ - 1]
    /\ uartBehind' = [uartBehind EXCEPT ![sub] = @ - 1]
    /\ UNCHANGED <<uartPc, uartHeld, exceptUart>>

NextUart ==
    \/ uart_receive
    \/ uart_publish_resumes
    \/ \E sub \in Subs : uart_next_message(sub)
SpecUart == Init /\ [][NextUart]_vars

\* C23: the UART receive task applies no back-pressure: publishing a batch
\* never suspends it, also when a subscriber has not read the 4 batches that
\* are queued (the slow subscriber then loses the oldest)
C23_PublishNeverSuspends == uartPc = "read"

(***************************************************************************)
(* One WebSocket session (bin/www_test/server.rs:288-566).  run obtains    *)
(* its nine handles and then loops over a select of the socket and of the  *)
(* watches and subscriptions.  A request the session sends to a task is    *)
(* recorded in wsDispatched (the tasks' answers are the subject of the     *)
(* sections above), a frame the socket accepted in wsSent.                 *)
(***************************************************************************)
\* a refused handle is passed over
run_acquired_skipping(ok, n) ==
    <<IF n + 1 = NumHandles THEN "loop" ELSE "acquire", <<>>>>
\* run asks for a handle (server.rs:296-340) after it obtained n: the handle
\* is obtained (ok), or it is refused, the socket is closed with 1011 and run
\* returns.  The result is <<position, reason of the close frame>>.
run_acquired(ok, n) ==
    IF ok THEN <<IF n + 1 = NumHandles THEN "loop" ELSE "acquire", <<>>>>
    ELSE <<"closed", <<1011>>>>

run_acquire ==
    /\ wsPc = "acquire"
    /\ \E ok \in BOOLEAN :
        /\ wsHandles' = Append(wsHandles, ok)
        /\ wsPc' = run_acquired(ok, Len(wsHandles))[1]
        /\ wsClose' = run_acquired(ok, Len(wsHandles))[2]
    /\ UNCHANGED <<wsMsg, wsEvents, wsDispatched, wsSent, i2cAcks, i2cProbed>>
    /\ UNCHANGED exceptWs

\* what rx.next_message returns: a message or a ReadMessageError.  A text
\* message is described by whether it is well-formed JSON and by the members
\* it holds.
Frame(kind, wellformed, type, id, md, action, value) ==
    [mode |-> md, kind |-> kind, wellformed |-> wellformed, type |-> type,
     id |-> id, action |-> action, value |-> value]
Bare(kind) == Frame(kind, FALSE, "", 0, "", "", 0)
\* the ids tried: in range, out of range, and not a u8
Ids == {0, 4, 5, 256}
TextFrames ==
    {Bare("Text")}
    \cup {Frame("Text", TRUE, "digital", id, "", "", v) : id \in Ids, v \in 0..1}
    \cup {Frame("Text", TRUE, "digital_mode", id, m, "", 0) :
            id \in Ids, m \in {"OpenDrain", "PushPull", "Input"}}
    \cup {Frame("Text", TRUE, "power", 0, "", a, v) : a \in {"boost", "otg"}, v \in 0..1}
    \cup {Frame("Text", TRUE, t, 0, "", "", 0) :
            t \in {"i2c_scan", "i2c_read", "i2c_write", "uart_send", "reboot"}}
ReadMessageErrors ==
    {"Io", "ReadFrameError", "MessageStartsWithContinuation",
     "UnexpectedMessageStart", "ReservedOpcode", "TextIsNotUtf8"}
Messages ==
    TextFrames \cup {Bare(k) : k \in {"Binary", "Close", "Ping", "Pong"} \cup ReadMessageErrors}

\* serde_json::from_str::<WebSocketCommand> returns Ok (server.rs:197-214,
\* 365): the text is JSON, its type is one of the seven and its id fits u8
CommandTypes ==
    {"digital", "digital_mode", "power", "i2c_scan", "i2c_read", "i2c_write", "uart_send"}
from_str_is_ok(m) ==
    /\ m.wellformed
    /\ m.type \in CommandTypes
    /\ m.type \in {"digital", "digital_mode"} => m.id \in 0..255

\* every id names a pin
DigitalPinID_wrapping(id) == <<id % 5>>
\* match id { 0 => D0, ..., 4 => D4, _ => continue } (server.rs:368-378,
\* 383-393): the pin, or nothing
DigitalPinID(id) == IF id \in 0..4 THEN <<id>> ELSE <<>>

\* the addresses i2c_scan writes to (server.rs:244)
FirstAddr == 3
LastAddr == 119
\* for addr in first..=last (server.rs:244-249): a zero-length write to each
\* address in turn, and the address is pushed when the write is acknowledged:
\* <<the addresses written to, the addresses pushed>>
scan_range(first, last, acks) ==
    LET written == [i \in 1..(last - first + 1) |-> first + i - 1]
    IN  <<written, SelectSeq(written, LAMBDA addr : addr \in acks)>>
\* the scan with address 0x03 left out
i2c_scan_short(acks) == scan_range(FirstAddr + 1, LastAddr, acks)
\* i2c_scan (server.rs:238-253): <<the addresses written to, the result>>
i2c_scan(acks) == scan_range(FirstAddr, LastAddr, acks)

\* the match on the command (server.rs:366-457):
\* <<the requests sent to the tasks, the frames handed to the socket>>
Nothing == <<<<>>, <<>>>>
Request(task, pin, arg) == <<<< <<task, pin, arg>> >>, <<>>>>
Reply(kind, payload) == <<<<>>, << <<kind, payload>> >>>>
on_text(m, acks) ==
    IF ~from_str_is_ok(m) THEN Nothing
    ELSE IF m.type = "digital" THEN
        IF DigitalPinID(m.id) = <<>> THEN Nothing
        ELSE Request("digital.set", DigitalPinID(m.id)[1],
                     IF m.value # 0 THEN "High" ELSE "Low")
    ELSE IF m.type = "digital_mode" THEN
        IF DigitalPinID(m.id) = <<>> THEN Nothing
        ELSE IF m.mode \notin {"OpenDrain", "PushPull"} THEN Nothing
        ELSE Request("digital.set_mode", DigitalPinID(m.id)[1], m.mode)
    ELSE IF m.type = "power" THEN
        IF m.action = "boost"
        THEN Request("power.set_boost_converter", 0, IF m.value # 0 THEN "On" ELSE "Off")
        ELSE Nothing
    ELSE IF m.type = "i2c_scan" THEN Reply("I2cScanResult", i2c_scan(acks)[2])
    ELSE IF m.type = "i2c_read" THEN Reply("I2cReadResult", <<>>)
    ELSE IF m.type = "i2c_write" THEN Reply("I2cWriteResult", <<>>)
    ELSE Request("uart.send", 0, "")

\* a reserved opcode is taken for a protocol error
CloseCodeAllProtocol(kind) ==
    IF kind = "TextIsNotUtf8" THEN 1007 ELSE 1002
\* the code for a ReadMessageError other than Io (server.rs:466-474)
CloseCode(kind) ==
    IF kind = "ReservedOpcode" THEN 1003
    ELSE IF kind = "TextIsNotUtf8" THEN 1007
    ELSE 1002

\* the arm of the select for the socket (server.rs:363-476): m is what
\* next_message returned and io says whether the socket accepts what the
\* session writes in answer.  The result is <<position, reason of the close
\* frame, requests sent, frames sent>>.
on_message(m, io, acks) ==
    IF m.kind = "Text"
    THEN <<"loop", <<>>, on_text(m, acks)[1], IF io THEN on_text(m, acks)[2] ELSE <<>>>>
    ELSE IF m.kind = "Binary" THEN <<"closed", <<1003>>, <<>>, <<>>>>
    ELSE IF m.kind = "Close" THEN <<"closed", <<>>, <<>>, <<>>>>
    ELSE IF m.kind = "Ping"
    THEN IF io THEN <<"loop", <<>>, <<>>, << <<"Pong", <<>>>> >>>>
         ELSE <<"failed", <<>>, <<>>, <<>>>>
    ELSE IF m.kind = "Pong" THEN <<"loop", <<>>, <<>>, <<>>>>
    ELSE IF m.kind = "Io" THEN <<"failed", <<>>, <<>>, <<>>>>
    ELSE <<"closed", <<CloseCode(m.kind)>>, <<>>, <<>>>>

run_next_message ==
    /\ wsPc = "loop"
    /\ wsEvents > 0
    /\ \E m \in Messages, io \in BOOLEAN :
        LET r == on_message(m, io, i2cAcks)
        IN  /\ wsMsg' = <<m, io>>
            /\ wsPc' = r[1]
            /\ wsClose' = r[2]
            /\ wsDispatched' = wsDispatched \o r[3]
            /\ wsSent' = wsSent \o r[4]
            /\ i2cProbed' = IF m.kind = "Text" /\ from_str_is_ok(m) /\ m.type = "i2c_scan"
                            THEN i2c_scan(i2cAcks)[1]
                            ELSE i2cProbed
    /\ wsEvents' = wsEvents - 1
    /\ UNCHANGED <<wsHandles, i2cAcks, exceptWs>>

\* the other arms of the select (server.rs:477-563): a watch changed or a
\* subscription delivered, and the session sends the state frame; run
\* returns the error when the socket does not accept it
StateFrames ==
    {"PowerStats", "AdcVoltage", "PinState", "AdcBuffer", "UartReceive"}
run_state_changed ==
    /\ wsPc = "loop"
    /\ wsEvents > 0
    /\ \E kind \in StateFrames, io \in BOOLEAN :
        IF io
        THEN /\ wsSent' = Append(wsSent, <<kind, <<>>>>)
             /\ UNCHANGED wsPc
        ELSE /\ wsPc' = "failed"
             /\ UNCHANGED wsSent
    /\ wsMsg' = <<>>
    /\ wsEvents' = wsEvents - 1
    /\ UNCHANGED <<wsHandles, wsClose, wsDispatched, i2cAcks, i2cProbed>>
    /\ UNCHANGED exceptWs

\* the addresses that may hold a device: the charger (0x6B), the ends of the
\* scanned range and their neighbours outside it
Devices == {FirstAddr - 1, FirstAddr, 107, LastAddr, LastAddr + 1}
InitSessionSpec ==
    /\ InitMailbox /\ InitAuxTasks /\ InitSession /\ InitPower /\ InitPins /\ InitMain
    /\ InitAdc /\ InitLate
    /\ i2cAcks \in SUBSET Devices
    /\ sequence = U32(0, 0)
    /\ wdt = "Seconds160"
    /\ pocr = [charging |-> TRUE, otg |-> FALSE]
    /\ vbus = FALSE
NextSession ==
    \/ run_acquire
    \/ run_next_message
    \/ run_state_changed
SpecSession == InitSessionSpec /\ [][NextSession]_vars

\* C24: a session that fails to obtain any one of its nine handles closes the
\* socket with code 1011 and ends without entering the event loop: it takes
\* no event, dispatches no command and sends no frame
C24_AcquisitionFailureCloses ==
    (\E i \in 1..Len(wsHandles) : ~wsHandles[i]) =>
        /\ wsPc = "closed"
        /\ wsClose = <<1011>>
        /\ wsEvents = MaxWsEvents
        /\ wsMsg = <<>>
        /\ wsDispatched = <<>>
        /\ wsSent = <<>>

\* C24 witness: the ninth handle was refused after eight were obtained
C24_Witness ==
    /\ Len(wsHandles) = NumHandles
    /\ ~wsHandles[NumHandles]
    /\ wsPc = "closed"

\* the session's last event was the message or read error kind from the socket
LastMessage(kind) == wsMsg # <<>> /\ wsMsg[1].kind = kind
\* the session has ended with a close frame of this reason
ClosedWith(reason) == wsPc = "closed" /\ wsClose = reason
\* the codes of the close frames, by what the socket delivered
CloseCodeMapping ==
    /\ LastMessage("Binary") \/ LastMessage("ReservedOpcode") => ClosedWith(<<1003>>)
    /\ \/ LastMessage("ReadFrameError")
       \/ LastMessage("MessageStartsWithContinuation")
       \/ LastMessage("UnexpectedMessageStart")
       => ClosedWith(<<1002>>)
    /\ LastMessage("TextIsNotUtf8") => ClosedWith(<<1007>>)
    /\ LastMessage("Close") => ClosedWith(<<>>)

\* C25 as stated: the session ends with close code 1003 on a binary message
\* or a reserved opcode, 1002 on a frame-read error, a message starting with
\* a continuation frame or an unexpected message start, 1007 on non-UTF8
\* text, without code on a peer Close; ping, pong and text never end it
C25_CloseCodesPingNeverEnds ==
    /\ CloseCodeMapping
    /\ LastMessage("Ping") \/ LastMessage("Pong") \/ LastMessage("Text") => wsPc = "loop"

\* C25 amended: the same close codes; pong and text never end the session; a
\* ping is answered with a pong and leaves the session open, unless the
\* socket does not accept the pong: then run returns the write error and the
\* session ends without a close frame
C25_CloseCodesPingAnswered ==
    /\ CloseCodeMapping
    /\ LastMessage("Pong") \/ LastMessage("Text") => wsPc = "loop"
    /\ LastMessage("Ping") =>
        IF wsMsg[2]
        THEN wsPc = "loop" /\ wsSent # <<>> /\ wsSent[Len(wsSent)] = <<"Pong", <<>>>>
        ELSE wsPc = "failed"

\* C25 witness: a ping was answered and the next frame had a reserved opcode:
\* the session is closed with 1003
C25_Witness ==
    /\ LastMessage("ReservedOpcode")
    /\ ClosedWith(<<1003>>)
    /\ wsSent = << <<"Pong", <<>>>> >>

\* a text frame the claim calls invalid: not a command (the JSON does not
\* parse as one), a digital or digital_mode command with an id outside 0..4, a
\* digital_mode command with another mode, a power command with another action
InvalidCommand(m) ==
    /\ m.kind = "Text"
    /\ \/ ~m.wellformed
       \/ m.type \notin CommandTypes
       \/ m.type \in {"digital", "digital_mode"} /\ m.id \notin 0..4
       \/ m.type = "digital_mode" /\ m.mode \notin {"OpenDrain", "PushPull"}
       \/ m.type = "power" /\ m.action # "boost"
\* this step of the session takes a message from the socket
TakesMessage == wsEvents' < wsEvents /\ wsMsg' # <<>>

\* C26: a text frame that is not a valid command, a digital or digital_mode
\* command with an id outside 0..4, a digital_mode command with a mode other
\* than OpenDrain/PushPull and a power command with an action other than
\* boost dispatch no request to any task, send no frame to the client and
\* leave the session open for the next message
C26_InvalidCommandIgnored ==
    [][TakesMessage /\ InvalidCommand(wsMsg'[1]) =>
          /\ wsDispatched' = wsDispatched
          /\ wsSent' = wsSent
          /\ wsPc' = "loop"
          /\ wsClose' = wsClose]_vars

\* C26 witness: a digital command for pin 4 was dispatched, and then a
\* digital command with id 5 was taken and the session is open
C26_Witness ==
    /\ wsMsg # <<>>
    /\ InvalidCommand(wsMsg[1])
    /\ wsMsg[1].type = "digital" /\ wsMsg[1].id = 5
    /\ wsDispatched = << <<"digital.set", 4, "High">> >>
    /\ wsSent = <<>>
    /\ wsPc = "loop"

\* the device lists of the scan results the session has sent
ScanResults ==
    {wsSent[i][2] : i \in {j \in 1..Len(wsSent) : wsSent[j][1] = "I2cScanResult"}}

\* C27: i2c_scan writes to each address from 0x03 to 0x77 exactly once, in
\* ascending order (117 zero-length writes), and its result holds exactly the
\* addresses of that range whose write was acknowledged, none of them twice
C27_ScanProbesRangeOnce ==
    /\ i2cProbed # <<>> =>
        /\ Len(i2cProbed) = 117
        /\ \A i \in 1..117 : i2cProbed[i] = 2 + i
    /\ \A devices \in ScanResults :
        /\ {devices[i] : i \in 1..Len(devices)} = {a \in i2cAcks : 3 <= a /\ a <= 119}
        /\ \A i, j \in 1..Len(devices) : i # j => devices[i] # devices[j]

\* C27 witness: devices acknowledge at 0x02, 0x03, 0x6B, 0x77 and 0x78, and a
\* scan has returned 0x03, 0x6B and 0x77
C27_Witness ==
    /\ i2cAcks = {2, 3, 107, 119, 120}
    /\ i2cProbed # <<>>
    /\ <<3, 107, 119>> \in ScanResults

(***************************************************************************)
(* The expander's output bits.                                             *)
(***************************************************************************)
\* PowerController::new returns Ok in this step
Initialised == ppc = "new" /\ ppc' = "head"

\* C28 as stated: the byte written to the expander at initialisation encodes
\* chr_otg active and chr_en, chr_psel and vbus_enable inactive (chr_en and
\* chr_psel active-low, chr_otg and vbus_enable active-high)
C28_SetupOnlyOtgActive ==
    [][Initialised =>
          /\ chr_otg(expander')
          /\ ~chr_en(expander')
          /\ ~chr_psel(expander')
          /\ ~vbus_enable(expander')]_vars

\* C28 amended: the byte written at initialisation is 0xFF: it encodes
\* chr_otg active, chr_en and chr_psel inactive, and vbus_enable active
C28_SetupAllHigh ==
    [][Initialised =>
          /\ expander' = 255
          /\ chr_otg(expander')
          /\ ~chr_en(expander')
          /\ ~chr_psel(expander')
          /\ vbus_enable(expander')]_vars

\* C28 witness: the controller is initialised and its task has not read the
\* stats yet; chr_otg and vbus_enable are active
C28_Witness ==
    /\ ppc = "head"
    /\ POWER_STATE = NoStats
    /\ ~initial_mode_set
    /\ chr_otg(expander) /\ vbus_enable(expander)

\* C29: a mode change alters only chr_en and vbus_enable among the output
\* bits of the expander byte: after initialisation, whatever SetMode and
\* CheckInterrupt requests are handled, chr_otg keeps the value set at
\* initialisation (active), and chr_psel and the unused bit P2 are written
\* back as they were
C29_OtherOutputsPreserved ==
    [][ppc # "new" =>
          /\ chr_otg(expander') /\ chr_otg(expander)
          /\ chr_psel(expander') = chr_psel(expander)
          /\ Bit(expander', 2) = Bit(expander, 2)]_vars

\* C29 witness: Ok was sent for SetMode(Otg), which changed chr_en or
\* vbus_enable from their values at initialisation, and chr_otg is active and
\* chr_psel and P2 are as initialisation left them
C29_Witness ==
    /\ ackedMode = "Otg"
    /\ mode = "Otg"
    /\ ~vbus_enable(expander)
    /\ chr_otg(expander)
    /\ ~chr_psel(expander)
    /\ Bit(expander, 2) = 1

(***************************************************************************)
(* The stream of records of one pin.                                       *)
(***************************************************************************)
\* the agent of pin p takes a command from its mailbox in this step
HandlesPinCommand(p) == pinPc[p] = "select" /\ pinPc'[p] = "respond"
\* the command it takes
PinCommand(p) == ChanFront(DIGITAL_CHANNEL[p].req)
\* something of pin p changes in this step: its agent's position, mode or
\* level, or its published record
PinActs(p) ==
    \/ pinPc'[p] # pinPc[p]
    \/ current_mode'[p] # current_mode[p]
    \/ pinLevel'[p] # pinLevel[p]
    \/ DIGITAL_STATE'[p] # DIGITAL_STATE[p]

\* C30: per-pin sequential consistency.  The mode of a pin's agent is
\* OpenDrain until it handles a SetMode and then the mode of the last SetMode
\* it handled, and every record it publishes carries that mode; the first
\* record published for a pin is (OpenDrain, InHigh or InLow); the agent
\* publishes one record after every event it handles and before it handles
\* the next, so the records appear in the order of the events; and a step of
\* one pin's agent changes no other pin's mode, level or published record.
C30_PerPinSequentialConsistency ==
    [][\A p \in Pins :
          /\ pinPc[p] = "new" => current_mode[p] = "OpenDrain" /\ pinLevel[p]
          /\ current_mode'[p] =
                 IF HandlesPinCommand(p) /\ PinCommand(p).kind = "SetMode"
                 THEN PinCommand(p).m ELSE current_mode[p]
          /\ Publishes(p) => DIGITAL_STATE'[p][1] = current_mode[p]
          /\ Publishes(p) /\ DIGITAL_STATE[p] = NoPinState =>
                 DIGITAL_STATE'[p] \in {<<"OpenDrain", "InHigh">>, <<"OpenDrain", "InLow">>}
          /\ DIGITAL_STATE'[p] # DIGITAL_STATE[p] => Publishes(p)
          /\ pinPc[p] = "publish" /\ pinPc'[p] # "publish" => Publishes(p)
          /\ pinPc[p] = "respond" => pinPc'[p] \in {"respond", "publish"}
          /\ pinPc[p] = "select" => pinPc'[p] \in {"select", "respond", "publish"}
          /\ PinActs(p) => \A q \in Pins \ {p} : ~PinActs(q)
      ]_vars

\* C30 witness: pin 0 was set to PushPull and driven low and its record says
\* so, while pin 1 still shows the record of its start
C30_Witness ==
    /\ DIGITAL_STATE[0] = <<"PushPull", "DrivingLow">>
    /\ current_mode[0] = "PushPull"
    /\ DIGITAL_STATE[1] = <<"OpenDrain", "InHigh">>
    /\ current_mode[1] = "OpenDrain" /\ pinLevel[1]
    /\ sessionCmds = MaxPinCmds - 2

\* C31: SetMode on a pin changes only its drive mode and preserves the last
\* commanded level; SetState changes only the commanded level and never the
\* mode
C31_SetModeKeepsLevel ==
    [][\A p \in Pins : HandlesPinCommand(p) =>
          /\ PinCommand(p).kind = "SetMode" =>
                 /\ current_mode'[p] = PinCommand(p).m
                 /\ pinLevel'[p] = pinLevel[p]
          /\ PinCommand(p).kind = "SetState" =>
                 /\ pinLevel'[p] = PinCommand(p).v
                 /\ current_mode'[p] = current_mode[p]
      ]_vars

\* C31 witness: pin 0 was driven low in open drain and published so, and its
\* agent has just handled SetMode(PushPull): the level is still low
C31_Witness ==
    /\ pinPc[0] = "respond"
    /\ current_mode[0] = "PushPull"
    /\ ~pinLevel[0]
    /\ DIGITAL_STATE[0][1] = "OpenDrain"
    /\ DIGITAL_STATE[0][2] \in {"DrivingLow", "FunckingBad"}

(***************************************************************************)
(* One sample of the ADC sampler (tasks/adc.rs:199-219):                   *)
(* ((adc.read_oneshot(..).await as u32) * calibration / 1000) as u16.      *)
(* The readings and constants tried keep the product below 2^31, so the    *)
(* u32 multiplication does not overflow.                                   *)
(***************************************************************************)
\* `x as u16`: the low 16 bits
as_u16(x) == x % 65536
\* the sample stored for the reading r with calibration constant c
sample_millivolts(r, c) == as_u16((r * c) \div 1000)

\* readings: the ends of the 12-bit and of the 16-bit range and values between
RawReadings == {0, 1, 2, 1000, 2047, 4095, 4096, 8191, 32768, 65535}
\* calibration constants: the defaults (tasks/adc.rs:58-66) and others
Calibrations == {0, 1, 968, 1000, 3100, 4774, 5624, 13717, 14316, 16004, 20000, 32767}

adc_sample ==
    /\ \E r \in RawReadings :
        /\ raw' = r
        /\ millivolts' = sample_millivolts(r, calibration)
    /\ UNCHANGED <<calibration, exceptMv>>

InitSampleSpec ==
    /\ InitMailbox /\ InitAuxTasks /\ InitSession /\ InitPower /\ InitPins /\ InitMain
    /\ InitAdc
    /\ i2cAcks = {}
    /\ sequence = U32(0, 0)
    /\ wdt = "Seconds160"
    /\ pocr = [charging |-> TRUE, otg |-> FALSE]
    /\ vbus = FALSE
    /\ calibration \in Calibrations
    /\ raw = 0
    /\ millivolts = 0
    /\ InitWatches /\ InitTx /\ InitShip /\ InitBus /\ InitHandles
SpecSample == InitSampleSpec /\ [][adc_sample]_vars

\* C32: for every raw reading and calibration constant the stored sample is
\* min(floor(raw * calibration / 1000), 65535): the result saturates to 16
\* bits instead of wrapping modulo 2^16
C32_MillivoltsSaturate ==
    millivolts = IF (raw * calibration) \div 1000 > 65535
                 THEN 65535
                 ELSE (raw * calibration) \div 1000

\* the sampler publishes a buffer in this step
PublishesBuffer == buffers' = buffers + 1

MaxSends == 2

\* sender.send(value) (tasks/power.rs:163, tasks/adc.rs:225,
\* tasks/digital_io.rs:196)
watch_send(w) ==
    /\ current_id[w] < MaxSends
    /\ current_id' = [current_id EXCEPT ![w] = @ + 1]
    /\ UNCHANGED <<at_id, rxReady, exceptWatch>>

\* the peer sends a message
peer_sends ==
    /\ ~rxReady
    /\ rxReady' = TRUE
    /\ UNCHANGED <<current_id, at_id, exceptWatch>>

\* the arm a select of all arms returns while the socket has a message:
\* the first arm of the select (server.rs:344, 363)
select_next_message ==
    /\ rxReady
    /\ rxReady' = FALSE
    /\ UNCHANGED <<current_id, at_id, exceptWatch>>

\* the receiver of watch w has a value to deliver
Changed(w) == at_id[w] # current_id[w]
\* the select returns the arm of watch w (server.rs:345-355, 477-520): no
\* arm before it is ready; the receiver gets the value the watch holds
select_changed(w) ==
    /\ Changed(w)
    /\ ~rxReady
    /\ \A v \in WatchIds : v < w => ~Changed(v)
    /\ at_id' = [at_id EXCEPT ![w] = current_id[w]]
    /\ UNCHANGED <<current_id, rxReady, exceptWatch>>

NextSelect ==
    \/ \E w \in WatchIds : watch_send(w)
    \/ peer_sends
    \/ select_next_message
    \/ \E w \in WatchIds : select_changed(w)
\* the session keeps running its loop: an arm that stays the one the select
\* returns is taken
FairSelect ==
    /\ Init /\ [][NextSelect]_vars
    /\ WF_vars(select_next_message)
    /\ \A w \in WatchIds : WF_vars(select_changed(w))

\* C34: a watch receiver that keeps waiting for changes eventually receives
\* the most recent value sent to its watch once the sending stops; it may skip
\* values but never receives values out of order nor a value older than one
\* it received
C34_EventuallyLatest ==
    /\ \A w \in WatchIds : \A n \in 0..(MaxSends + 1) :
           <>[](current_id[w] = n) => <>[](at_id[w] = n)
    /\ [][\A w \in WatchIds :
             at_id'[w] # at_id[w] => at_id'[w] > at_id[w] /\ at_id'[w] = current_id[w]
       ]_vars

(***************************************************************************)
(* The two FIFOs of a RequestResponseChannel.                              *)
(***************************************************************************)
\* the number of times x is in the FIFO q
Occurrences(q, x) == Cardinality({i \in 1..Len(q) : q[i] = x})
\* the send_request of request r has completed
RequestSent(r) ==
    \/ callerN[r.from] > r.n
    \/ callerN[r.from] = r.n /\ callerPc[r.from] # "send"

\* C35: on a RequestResponseChannel of capacity N the worker receives the
\* requests in the order their send_request completed and the callers receive
\* the responses in the order their send_response completed (a send appends
\* at the tail, a receive takes the head, nothing else changes a FIFO);
\* neither FIFO holds more than N items (a send completes only while its FIFO
\* has room, a receive only while it holds an item); and no request or
\* response is lost or delivered twice
C35_FifoOrderBoundedNoLoss ==
    /\ [](Len(req_channel) <= MbCap /\ Len(resp_channel) <= MbCap)
    /\ [](\A r \in Requests :
             /\ Occurrences(req_channel, r) + recvCount[r] = IF RequestSent(r) THEN 1 ELSE 0
             /\ Occurrences(resp_channel, ResponseFor(r)) + returnCount[r] = sendCount[r]
             /\ sendCount[r] <= 1)
    /\ [][/\ req_channel' # req_channel =>
               \/ /\ Len(req_channel) < MbCap
                  /\ \E c \in Callers :
                         /\ callerPc[c] = "send" /\ callerPc'[c] = "recv"
                         /\ req_channel' = Append(req_channel, callerReq[c])
               \/ /\ Len(req_channel) > 0
                  /\ workerPc = "recv" /\ workerPc' = "send"
                  /\ workerReq' = Head(req_channel)
                  /\ req_channel' = Tail(req_channel)
          /\ resp_channel' # resp_channel =>
               \/ /\ Len(resp_channel) < MbCap
                  /\ workerPc = "send" /\ workerPc' = "recv"
                  /\ resp_channel' = Append(resp_channel, ResponseFor(workerReq))
               \/ /\ Len(resp_channel) > 0
                  /\ \E c \in Callers :
                         /\ callerPc[c] = "recv" /\ callerPc'[c] = "idle"
                         /\ returned'[c].resp = Head(resp_channel)
                  /\ resp_channel' = Tail(resp_channel)
       ]_vars

\* C35 witness: the request FIFO is full with the requests of two callers
\* and a third caller is suspended in send_request, after the worker has
\* answered a request
C35_Witness ==
    /\ Len(req_channel) = MbCap
    /\ req_channel[1].from # req_channel[MbCap].from
    /\ \E c \in Callers : callerPc[c] = "send"
    /\ \E c \in Callers : HasReturned(c)

(***************************************************************************)
(* UART transmission (tasks/uart.rs:25-31, 65-81).  A session calls        *)
(* uart_send for one vector after the other; the vectors are numbered in   *)
(* the order of the calls.                                                 *)
(***************************************************************************)
\* capacity of UART_TX_CHANNEL
UartTxCap == 4
\* uart_send is called for at most MaxTxVectors vectors
MaxTxVectors == 6

\* uart_send(data): UART_TX_CHANNEL.send(data.to_vec()).await
\* (tasks/uart.rs:29-31); the caller suspends while the queue is full
uart_send ==
    /\ txSendPc = "idle"
    /\ txEnqueued < MaxTxVectors
    /\ IF Len(UART_TX_CHANNEL) < UartTxCap
       THEN /\ UART_TX_CHANNEL' = Append(UART_TX_CHANNEL, txEnqueued + 1)
            /\ txEnqueued' = txEnqueued + 1
            /\ UNCHANGED txSendPc
       ELSE /\ txSendPc' = "send"
            /\ UNCHANGED <<UART_TX_CHANNEL, txEnqueued>>
    /\ UNCHANGED <<txPc, txData, txLog, exceptTx>>

\* the suspended send completes once the queue has room
uart_send_resumes ==
    /\ txSendPc = "send"
    /\ Len(UART_TX_CHANNEL) < UartTxCap
    /\ UART_TX_CHANNEL' = Append(UART_TX_CHANNEL, txEnqueued + 1)
    /\ txEnqueued' = txEnqueued + 1
    /\ txSendPc' = "idle"
    /\ UNCHANGED <<txPc, txData, txLog, exceptTx>>

\* let data = UART_TX_CHANNEL.receive().await (tasks/uart.rs:70)
uart_tx_receive ==
    /\ txPc = "receive"
    /\ Len(UART_TX_CHANNEL) > 0
    /\ txData' = Head(UART_TX_CHANNEL)
    /\ UART_TX_CHANNEL' = Tail(UART_TX_CHANNEL)
    /\ txPc' = "write"
    /\ UNCHANGED <<txSendPc, txEnqueued, txLog, exceptTx>>

\* a failed write ends the task
after_write_stopping(ok) == IF ok THEN "receive" ELSE "stopped"
\* the match on the result of write_async (tasks/uart.rs:72-79): both arms
\* log and the loop goes on
after_write(ok) == "receive"

\* uart_tx.write_async(&data).await returns Ok or Err (tasks/uart.rs:72)
uart_tx_write ==
    /\ txPc = "write"
    /\ \E ok \in BOOLEAN :
        /\ txLog' = Append(txLog, <<txData, ok>>)
        /\ txPc' = after_write(ok)
    /\ txData' = 0
    /\ UNCHANGED <<UART_TX_CHANNEL, txSendPc, txEnqueued, exceptTx>>

NextTx ==
    \/ uart_send
    \/ uart_send_resumes
    \/ uart_tx_receive
    \/ uart_tx_write
SpecTx == Init /\ [][NextTx]_vars

\* C36: the UART TX task writes each enqueued vector exactly once and in the
\* order the vectors were enqueued (the writes so far are those of vectors
\* 1, 2, ... and every enqueued vector is written, held or queued); at most
\* 4 vectors are queued (uart_send completes only while there is room); a
\* failed write is only logged: it changes nothing for the sender, does not
\* stop the task and does not affect later vectors
C36_TxOnceInOrder ==
    /\ [](/\ Len(UART_TX_CHANNEL) <= 4
          /\ \A i \in 1..Len(txLog) : txLog[i][1] = i
          /\ \A i \in 1..Len(UART_TX_CHANNEL) :
                 UART_TX_CHANNEL[i] = Len(txLog) + (IF txPc = "write" THEN 1 ELSE 0) + i
          /\ txPc = "write" => txData = Len(txLog) + 1
          /\ txEnqueued = Len(txLog) + (IF txPc = "write" THEN 1 ELSE 0)
                             + Len(UART_TX_CHANNEL)
          /\ txPc # "stopped")
    /\ [][/\ txEnqueued' # txEnqueued => Len(UART_TX_CHANNEL) < 4
          /\ Len(txLog') > Len(txLog) =>
                 /\ txPc' = "receive"
                 /\ txSendPc' = txSendPc
                 /\ txEnqueued' = txEnqueued
                 /\ UART_TX_CHANNEL' = UART_TX_CHANNEL
       ]_vars

\* C36 witness: the write of vector 1 failed and that of vector 2 succeeded,
\* while four vectors are queued and the sender is suspended with the seventh
C36_Witness ==
    /\ txLog = << <<1, FALSE>>, <<2, TRUE>> >>
    /\ UART_TX_CHANNEL = <<3, 4, 5, 6>>
    /\ txPc = "receive"

(***************************************************************************)
(* enter_shipping_mode (power/controller.rs:452-463).  No task calls it;   *)
(* it is applied to the controller in each mode, with the I2C transaction  *)
(* that fails as input: those of switch_mode, "cttcr" (the transact on     *)
(* the configuration registers fails before it writes any), or "mocr" (it  *)
(* fails after the watchdog-timer register is written).                    *)
(***************************************************************************)
\* enter_shipping_mode is called at most MaxShipCalls times
MaxShipCalls == 2
ShipFaults == {"none", "expander", "charger", "cttcr", "mocr"}

\* the registers switch_mode wrote
switch_writes(fault) ==
    IF fault = "expander" THEN <<>>
    ELSE IF fault = "charger" THEN <<"expander">>
    ELSE <<"expander", "pocr">>

\* the configuration registers are written whatever switch_mode returned
enter_shipping_mode_regardless(status, fault) ==
    LET r == switch_mode("Charging", status,
                         IF fault \in {"expander", "charger"} THEN fault ELSE "none")
    IN  [ctl |-> [r EXCEPT !.ok = r.ok /\ fault \notin {"cttcr", "mocr"}],
         watchdog_timer |-> IF fault = "cttcr" THEN watchdog_timer ELSE "Disabled",
         batfet_disabled |-> IF fault \in {"cttcr", "mocr"}
                             THEN batfet_disabled ELSE TRUE,
         writes |-> switch_writes(fault) \o
                    (IF fault = "cttcr" THEN <<>>
                     ELSE IF fault = "mocr" THEN <<"cttcr">>
                     ELSE <<"cttcr", "mocr">>)]
\* enter_shipping_mode: switch_mode(Charging, stats)?, then the transact that
\* disables the watchdog timer and the BATFET
enter_shipping_mode(status, fault) ==
    LET r == switch_mode("Charging", status,
                         IF fault \in {"expander", "charger"} THEN fault ELSE "none")
    IN  IF ~r.ok
        THEN [ctl |-> r, watchdog_timer |-> watchdog_timer,
              batfet_disabled |-> batfet_disabled, writes |-> switch_writes(fault)]
        ELSE [ctl |-> [r EXCEPT !.ok = fault \notin {"cttcr", "mocr"}],
              watchdog_timer |-> IF fault = "cttcr" THEN watchdog_timer
                                 ELSE "Disabled",
              batfet_disabled |-> IF fault \in {"cttcr", "mocr"}
                                  THEN batfet_disabled ELSE TRUE,
              writes |-> switch_writes(fault) \o
                         (IF fault = "cttcr" THEN <<>>
                          ELSE IF fault = "mocr" THEN <<"cttcr">>
                          ELSE <<"cttcr", "mocr">>)]

\* one call of enter_shipping_mode with the stats just read
ship_call ==
    /\ shipCalls < MaxShipCalls
    /\ \E fault \in ShipFaults, in \in InputLevels :
        LET e == enter_shipping_mode(read_stats(in).expander_status, fault)
        IN  /\ expander' = e.ctl.expander
            /\ pocr' = e.ctl.pocr
            /\ mode' = e.ctl.mode
            /\ watchdog_timer' = e.watchdog_timer
            /\ batfet_disabled' = e.batfet_disabled
            /\ shipWrites' = e.writes
            /\ shipResult' = IF e.ctl.ok THEN "Ok" ELSE "Err"
    /\ shipCalls' = shipCalls + 1
    /\ UNCHANGED <<running, ppc, wdt, boost, vbus, initial_mode_set,
                   POWER_STATE, POWER_CONTROL, pcmd, presp, callVars, timeVars,
                   histVars, mbVars, pinVars, mainVars, adcVars, irqAux,
                   uartVars, wsVars, mvVars, watchVars, txVars, busVars,
                   handleVars>>

\* the controller in any mode with the hardware as that mode's switch left
\* it, and the charger's watchdog timer as any configuration sets it
InitShipSpec ==
    /\ InitMailbox /\ InitPins /\ InitMain /\ InitAdc /\ InitAuxTasks
    /\ InitSession /\ i2cAcks = {} /\ InitSample /\ InitWatches /\ InitTx
    /\ InitBus /\ InitHandles
    /\ sequence = U32(0, 0)
    /\ running = "none"
    /\ ppc = "select"
    /\ boost = FALSE
    /\ initial_mode_set = TRUE
    /\ POWER_STATE = NoStats
    /\ POWER_CONTROL = [req |-> <<>>, resp |-> <<>>]
    /\ pcmd = NoCmd
    /\ presp = NoResp
    /\ irqPc = "wait_edge"
    /\ clientPc = [c \in Clients |-> "idle"]
    /\ clientReq = [c \in Clients |-> NoCmd]
    /\ waited = 0
    /\ sinceReset = 0
    /\ faultSinceReset = "none"
    /\ resetOwed = FALSE
    /\ resetAfter = "none"
    /\ ackedMode = "none"
    /\ returnedMode = "none"
    /\ published = FALSE
    /\ pubAfterAck = "none"
    /\ wdt \in WatchdogTimers
    /\ mode \in Modes
    /\ expander = ExpanderForMode(mode, SetupByte)
    /\ pocr = ChargerForMode(mode)
    /\ vbus \in BOOLEAN
    /\ watchdog_timer = wdt
    /\ batfet_disabled = FALSE
    /\ shipResult = "none"
    /\ shipWrites = <<>>
    /\ shipCalls = 0
SpecShip == InitShipSpec /\ [][ship_call]_vars

\* C37: enter_shipping_mode first switches to Charging and writes the
\* watchdog-timer and BATFET registers only after that switch returned Ok
\* (both of its writes precede them and the recorded mode is Charging); if
\* the switch fails it returns Err and those registers are not written
C37_ShippingAfterCharging ==
    /\ [](\A i \in 1..Len(shipWrites) :
             shipWrites[i] \in {"cttcr", "mocr"} =>
                 /\ i > 2
                 /\ shipWrites[1] = "expander"
                 /\ shipWrites[2] = "pocr"
                 /\ mode = "Charging"
                 /\ pocr = ChargerForMode("Charging")
                 /\ chr_en(expander))
    /\ [](shipResult = "Ok" =>
             /\ shipWrites = <<"expander", "pocr", "cttcr", "mocr">>
             /\ watchdog_timer = "Disabled"
             /\ batfet_disabled)
    /\ [][(shipCalls' # shipCalls /\ Len(shipWrites') < 2) =>
             /\ shipResult' = "Err"
             /\ watchdog_timer' = watchdog_timer
             /\ batfet_disabled' = batfet_disabled
       ]_vars

\* C37 witness: a call from Otg entered shipping mode, and a call whose switch
\* failed at the charger write left the registers alone
C37_Witness ==
    /\ shipCalls = 2
    /\ shipResult = "Err"
    /\ shipWrites = <<"expander">>
    /\ watchdog_timer = "Disabled"
    /\ batfet_disabled

(***************************************************************************)
(* The recorded mode and the hardware (power/controller.rs:348-396).       *)
(***************************************************************************)
\* C38: at every point where another task can run after the initial mode
\* has been applied, the chr_en/vbus_enable bits of the last expander write
\* and the charging/OTG bits of the last power-on-configuration write are
\* those of the table row of the recorded mode
C38_ModeAgreesWithHardware ==
    (initial_mode_set /\ running = "none") =>
        /\ chr_en(expander) = chr_en(ExpanderForMode(mode, expander))
        /\ vbus_enable(expander) = vbus_enable(ExpanderForMode(mode, expander))
        /\ pocr = ChargerForMode(mode)

(***************************************************************************)
(* The shared I2C bus (board.rs:78-99): a blocking driver in an AtomicCell.*)
(* A transaction takes the cell's busy flag, runs and releases it; a       *)
(* transaction started while the flag is taken fails.  The power task's    *)
(* handling of a SetMode or a CheckInterrupt that switches is four         *)
(* transactions: the stats read, the expander write, and the read and the  *)
(* write of the charger's read-modify-write (tasks/power.rs:104-133,       *)
(* power/controller.rs:348-396).  A session's i2c_read and i2c_write are   *)
(* one transaction each, its i2c_scan one per address                     *)
(* (bin/www_test/server.rs:238-286); the scan is cut to ScanProbes.        *)
(***************************************************************************)
\* the power task takes at most MaxBusRequests requests
MaxBusRequests == 2
\* the session starts at most MaxWsBusOps I2C operations
MaxWsBusOps == 2
\* the transactions of one i2c_scan in this section
ScanProbes == 2

PowerTransactions == <<"stats", "expander", "pocr_read", "pocr_write">>
WsBusOperations == {"scan", "read", "write"}

\* a task that gives up the processor after each transaction
holds_until_transaction_end(task) == "none"
\* the I2C calls are blocking and the code between them has no await: the
\* task keeps the processor from one transaction to the next
holds(task) == task

\* the select of power_controller_task returns a request
\* (tasks/power.rs:189-192)
power_takes_request ==
    /\ busPc = 0
    /\ running = "none"
    /\ busRequests < MaxBusRequests
    /\ \E kind \in {"SetMode", "CheckInterrupt"} : busReq' = kind
    /\ busRequests' = busRequests + 1
    /\ busPc' = 1
    /\ running' = "power"
    /\ UNCHANGED <<busBusy, busLog, wsBusOp, wsBusLeft, wsBusOps, exceptBus>>

\* the power task starts its next transaction; it fails at once when the bus
\* is taken, which ends the handling with Err
power_transaction_begin ==
    /\ busPc > 0
    /\ busBusy # "power"
    /\ running \in {"none", "power"}
    /\ IF busBusy = "none"
       THEN /\ busBusy' = "power"
            /\ busLog' = Append(busLog,
                                <<"power", PowerTransactions[busPc], busRequests>>)
            /\ running' = "power"
            /\ UNCHANGED busPc
       ELSE /\ busPc' = 0
            /\ running' = "none"
            /\ UNCHANGED <<busBusy, busLog>>
    /\ UNCHANGED <<busReq, busRequests, wsBusOp, wsBusLeft, wsBusOps, exceptBus>>

\* the transaction ends, with Ok or Err, and releases the bus; after the last
\* one, after an Err and after the stats read of a CheckInterrupt that has
\* nothing to switch the handling is over and the task goes on to its next
\* await
power_transaction_end ==
    /\ busBusy = "power"
    /\ busBusy' = "none"
    /\ \E ok \in BOOLEAN, switches \in BOOLEAN :
        IF ok /\ busPc < Len(PowerTransactions)
              /\ (busPc > 1 \/ busReq = "SetMode" \/ switches)
        THEN /\ busPc' = busPc + 1
             /\ running' = holds("power")
        ELSE /\ busPc' = 0
             /\ running' = "none"
    /\ UNCHANGED <<busLog, busReq, busRequests, wsBusOp, wsBusLeft, wsBusOps,
                   exceptBus>>

\* the session dispatches an i2c_scan, i2c_read or i2c_write command
\* (bin/www_test/server.rs:420-447)
ws_i2c_start ==
    /\ wsBusOp = "none"
    /\ running = "none"
    /\ wsBusOps < MaxWsBusOps
    /\ \E op \in WsBusOperations :
        /\ wsBusOp' = op
        /\ wsBusLeft' = IF op = "scan" THEN ScanProbes ELSE 1
    /\ wsBusOps' = wsBusOps + 1
    /\ running' = "session"
    /\ UNCHANGED <<busBusy, busLog, busPc, busReq, busRequests, exceptBus>>

\* the session starts the operation's next transaction; it fails at once
\* when the bus is taken
ws_transaction_begin ==
    /\ wsBusOp # "none"
    /\ busBusy # "session"
    /\ running \in {"none", "session"}
    /\ IF busBusy = "none"
       THEN /\ busBusy' = "session"
            /\ busLog' = Append(busLog, <<"session", wsBusOp, wsBusOps>>)
            /\ running' = "session"
            /\ UNCHANGED <<wsBusOp, wsBusLeft>>
       ELSE /\ wsBusLeft' = wsBusLeft - 1
            /\ wsBusOp' = IF wsBusLeft = 1 THEN "none" ELSE wsBusOp
            /\ running' = IF wsBusLeft = 1 THEN "none" ELSE holds("session")
            /\ UNCHANGED <<busBusy, busLog>>
    /\ UNCHANGED <<busPc, busReq, busRequests, wsBusOps, exceptBus>>

\* the transaction ends and releases the bus; after the last one the session
\* goes on to send the result
ws_transaction_end ==
    /\ busBusy = "session"
    /\ busBusy' = "none"
    /\ wsBusLeft' = wsBusLeft - 1
    /\ wsBusOp' = IF wsBusLeft = 1 THEN "none" ELSE wsBusOp
    /\ running' = IF wsBusLeft = 1 THEN "none" ELSE holds("session")
    /\ UNCHANGED <<busLog, busPc, busReq, busRequests, wsBusOps, exceptBus>>

NextBus ==
    \/ power_takes_request
    \/ power_transaction_begin
    \/ power_transaction_end
    \/ ws_i2c_start
    \/ ws_transaction_begin
    \/ ws_transaction_end
SpecBus == Init /\ [][NextBus]_vars

\* C39: no session I2C transaction lies between two transactions of the
\* power task's handling of one request (the read and the write of a
\* read-modify-write, the expander and the charger write of a switch_mode,
\* the stats read and the switch_mode); whenever another task can run the
\* power task is not inside a request's handling and the bus is released
C39_NoInterleavingOnBus ==
    /\ \A i, j, k \in 1..Len(busLog) :
           (i < j /\ j < k /\ busLog[i][1] = "power" /\ busLog[k][1] = "power"
              /\ busLog[i][3] = busLog[k][3])
           => busLog[j][1] = "power"
    /\ running = "none" => (busPc = 0 /\ busBusy = "none")

\* C39 witness: a session operation ran between two requests of the power
\* task, the first of which made all four transactions
C39_Witness ==
    /\ Len(busLog) >= 6
    /\ busLog[4] = <<"power", "pocr_write", 1>>
    /\ busLog[5][1] = "session"
    /\ busLog[Len(busLog)] = <<"power", "pocr_write", 2>>
    /\ running = "power"

(***************************************************************************)
(* The handles of the WebSocket sessions (bin/www_test/server.rs:296-340,  *)
(* 562-566).  Watch::receiver() and PubSubChannel::subscriber() hand out a *)
(* handle while fewer than the channel's limit exist, and dropping a       *)
(* handle gives its slot back.  The handles are locals of run: they are    *)
(* dropped when run returns, whichever way.                                *)
(***************************************************************************)
\* the receiver limit of every watch and the subscriber limit of every
\* pub/sub channel a session asks
HandleLimit == 4
\* at most MaxSessionRuns sessions are started
MaxSessionRuns == 6

\* the number of handles run obtains before the first refusal, from the
\* counts cnt: the let-else chain of server.rs:296-340
obtained(cnt) ==
    IF \A i \in 1..NumHandles : cnt[i] < HandleLimit THEN NumHandles
    ELSE (CHOOSE i \in 1..NumHandles :
             /\ cnt[i] >= HandleLimit
             /\ \A j \in 1..(i - 1) : cnt[j] < HandleLimit) - 1

\* the counts after a session has obtained its first n handles
take_handles(cnt, n) ==
    [i \in 1..NumHandles |-> IF i <= n THEN cnt[i] + 1 ELSE cnt[i]]

\* only the watch receivers give their slots back
drop_handles_watches_only(cnt, n) ==
    [i \in 1..NumHandles |-> IF i <= n /\ i <= 7 THEN cnt[i] - 1 ELSE cnt[i]]
\* the counts after run returned and its first n handles were dropped
drop_handles(cnt, n) ==
    [i \in 1..NumHandles |-> IF i <= n THEN cnt[i] - 1 ELSE cnt[i]]

\* a WebSocket connection is upgraded and run acquires its handles without
\* an await in between; after a refusal it awaits the 1011 close frame
session_starts(s) ==
    /\ sesPc[s] = "idle"
    /\ sesRuns < MaxSessionRuns
    /\ LET n == obtained(receivers)
       IN  /\ receivers' = take_handles(receivers, n)
           /\ held' = [held EXCEPT ![s] = n]
           /\ sesPc' = [sesPc EXCEPT ![s] = IF n = NumHandles THEN "loop"
                                            ELSE "failing"]
    /\ sesRuns' = sesRuns + 1
    /\ UNCHANGED <<sesFailures, exceptHandles>>

\* the close frame of a refused acquisition was sent (or not): return Ok(())
session_fails(s) ==
    /\ sesPc[s] = "failing"
    /\ receivers' = drop_handles(receivers, held[s])
    /\ held' = [held EXCEPT ![s] = 0]
    /\ sesPc' = [sesPc EXCEPT ![s] = "idle"]
    /\ sesFailures' = sesFailures + 1
    /\ UNCHANGED <<sesRuns, exceptHandles>>

\* the event loop breaks with a close reason (peer close or a close code):
\* run awaits tx.close (server.rs:566)
session_breaks(s) ==
    /\ sesPc[s] = "loop"
    /\ sesPc' = [sesPc EXCEPT ![s] = "closing"]
    /\ UNCHANGED <<receivers, held, sesRuns, sesFailures, exceptHandles>>

\* run returns: after tx.close, or with the I/O error of the event loop (the
\* `?` of server.rs:563)
session_returns(s) ==
    /\ sesPc[s] \in {"loop", "closing"}
    /\ receivers' = drop_handles(receivers, held[s])
    /\ held' = [held EXCEPT ![s] = 0]
    /\ sesPc' = [sesPc EXCEPT ![s] = "idle"]
    /\ UNCHANGED <<sesRuns, sesFailures, exceptHandles>>

NextHandles ==
    \E s \in Sessions :
        \/ session_starts(s)
        \/ session_fails(s)
        \/ session_breaks(s)
        \/ session_returns(s)
SpecHandles == Init /\ [][NextHandles]_vars

\* C40: sessions never leak handles: the count of every watch and pub/sub
\* channel is the permanent receivers plus the open sessions that hold a
\* handle of it, and never exceeds 4; a session that has ended holds none;
\* and a session started while no other session is open obtains all nine
C40_NoHandleLeak ==
    /\ [](\A i \in 1..NumHandles :
             /\ receivers[i] <= 4
             /\ receivers[i] = Permanent(SessionHandles[i])
                    + Cardinality({s \in Sessions : held[s] >= i}))
    /\ [](\A s \in Sessions : sesPc[s] = "idle" => held[s] = 0)
    /\ [][\A s \in Sessions :
             (/\ sesPc[s] = "idle"
              /\ sesPc'[s] # "idle"
              /\ \A t \in Sessions \ {s} : sesPc[t] = "idle")
             => (held'[s] = 9 /\ sesPc'[s] = "loop")
       ]_vars

\* C40 witness: after three sessions held the handles, a fourth was refused
\* with 1011 and all have ended, a session holds all nine handles again
C40_Witness ==
    /\ sesRuns = MaxSessionRuns
    /\ sesFailures >= 1
    /\ \E s \in Sessions :
        /\ sesPc[s] = "loop"
        /\ held[s] = 9
        /\ \A t \in Sessions \ {s} : sesPc[t] = "idle"

=============================================================================
